---- MODULE Spec2Model ----
(***************************************************************************)
(* The SRS scheduler of scripts/srs.py (class SRSManager) as a state       *)
(* machine: one scheduler instance over one persisted card store.          *)
(*                                                                         *)
(* Units.  ease_factor is kept in units of 1/EaseScale (2.5 is 25000): the *)
(* code rounds it to 4 decimals after every update.  The clock counts half *)
(* hours, so that an instant is either on the hour or inside it; an ISO    *)
(* timestamp is the sequence of its character codes.                       *)
(***************************************************************************)
EXTENDS Integers, Sequences, FiniteSets, TLC

VARIABLES
    files,      \* the file system: path -> [exists, text]
    cards,      \* self._cards of the scheduler instance
    phase,      \* "closed" before the first construction, "open" after it
    now,        \* the clock, datetime.now(timezone.utc), in half hours
    issued,     \* how many uuid4 ids have been drawn
    scheduled,  \* per card id, the now read by the call that last scheduled it
    succeeded,  \* per card id, how many review_card calls on it succeeded
    peer,       \* a second scheduler instance on the same store: phase, _cards
    probe,      \* the motif detector's calls: position, move, results
    server,     \* the game server: _games and its latest tool call
    last        \* the latest call: its arguments, outcome, result and pre-state

vars == <<files, cards, phase, now, issued, scheduled, succeeded, peer, probe,
          server, last>>

----------------------------------------------------------------------------
(* Bounds of the model *)

\* cards one scheduler holds
MaxCards == 2
\* cards and successful reviews in one run of the store specification
MaxStoreCards == 2
MaxStoreReviews == 2
\* plies played and evaluations stored in the game of the server
MaxPlies == 2
MaxEvals == 1
\* successful reviews in one run of the scheduler specification
MaxSessionReviews == 1
\* the clock stops at this many half hours
MaxNow == 9
\* reviews of the card in the ladder specification
MaxReviews == 8
\* reviews of the card in the grades specification
MaxGrades == 4
\* reviews of the card in the history specification
MaxHistory == 3
\* cards in the statistics specification
MaxStatsCards == 3
\* cards added to, and reviews made on, the shared store
MaxSharedCards == 3
MaxSharedReviews == 2
\* reviews of one card in the lapse specification
MaxLapseReviews == 16

----------------------------------------------------------------------------
(* Constants of srs.py *)

IntervalHours == <<4, 24, 72, 168, 336, 720>>
\* Mutant: the floor mistyped as 1.1.
MinEaseFactorLow == 13000 - 2000
MinEaseFactor == 13000
InitialEase == 25000
EaseScale == 10000

Max(a, b) == IF a >= b THEN a ELSE b
Abs(a) == IF a >= 0 THEN a ELSE 0 - a

----------------------------------------------------------------------------
(* Timestamps: datetime.isoformat, datetime.fromisoformat, str comparison *)

Plus == 43
Dot == 46
Zero == 48

\* The whole hours as six zero-padded decimal digits, as isoformat pads
\* every field of the date and the time to a fixed width.
Digit(h, p) == Zero + ((h \div p) % 10)

HourDigits(h) ==
    << Digit(h, 100000), Digit(h, 10000), Digit(h, 1000),
       Digit(h, 100), Digit(h, 10), Digit(h, 1) >>

\* isoformat prints the fraction only when it is not zero (".5" for the half
\* hour), then the UTC offset, which starts with "+".
IsoFormat(t) ==
    HourDigits(t \div 2)
        \o (IF (t % 2) = 0 THEN <<>> ELSE <<Dot, Zero + 5>>)
        \o <<Plus>>

FromIsoFormat(s) ==
    LET h == (s[1] - Zero) * 100000 + (s[2] - Zero) * 10000
             + (s[3] - Zero) * 1000 + (s[4] - Zero) * 100
             + (s[5] - Zero) * 10 + (s[6] - Zero)
    IN  IF s[7] = Dot THEN 2 * h + 1 ELSE 2 * h

\* now + timedelta(hours = h)
AddHours(t, h) == t + 2 * h

\* Python's str comparison: by the first differing character, else by length.
StrLess(a, b) ==
    LET n == IF Len(a) <= Len(b) THEN Len(a) ELSE Len(b)
        diff == {i \in 1..n : a[i] # b[i]}
    IN  IF diff = {}
        THEN Len(a) < Len(b)
        ELSE LET i == CHOOSE j \in diff : \A k \in diff : j <= k
             IN  a[i] < b[i]

----------------------------------------------------------------------------
(* The store file: json.dumps, json.loads, Path.with_suffix *)

\* A path is its stem and its suffix; the default of __init__.
CardsPath == [stem |-> "data/srs_cards", suffix |-> ".json"]
WithSuffix(p, suffix) == [p EXCEPT !.suffix = suffix]
BackupPath == WithSuffix(CardsPath, ".bak")
TmpPath == WithSuffix(CardsPath, ".tmp")
Paths == {CardsPath, BackupPath, TmpPath}

\* The decimal digits of a natural number, most significant first.
RECURSIVE Digits(_)
Digits(n) == IF n < 10 THEN <<n>> ELSE Append(Digits(n \div 10), n % 10)

RECURSIVE FromDigits(_)
FromDigits(ds) ==
    IF Len(ds) = 0 THEN 0
    ELSE 10 * FromDigits(SubSeq(ds, 1, Len(ds) - 1)) + ds[Len(ds)]

\* Mutant: a float is written with one digit behind the point.
FloatReprOneDigit(v) ==
    [whole |-> Digits(v \div EaseScale),
     frac |-> <<(v % EaseScale) \div (EaseScale \div 10)>>]

\* json.dumps of a float (float.__repr__): the shortest digits that read back
\* as the same value, at least one behind the point; ease factors are
\* rounded to four places, so four digits behind the point are enough.
FloatRepr(v) ==
    LET f == v % EaseScale
        places == <<f \div 1000, (f \div 100) % 10, (f \div 10) % 10, f % 10>>
        kept == CHOOSE n \in 1..4 :
                    /\ \A i \in (n + 1)..4 : places[i] = 0
                    /\ n > 1 => places[n] # 0
    IN  [whole |-> Digits(v \div EaseScale), frac |-> SubSeq(places, 1, kept)]

\* json.loads of a number with a point: the digits behind the point count
\* tenths, hundredths, and so on.
ParseFloat(r) ==
    LET padded == r.frac \o [i \in 1..(4 - Len(r.frac)) |-> 0]
    IN  FromDigits(r.whole) * EaseScale + FromDigits(padded)

\* json.dumps of one value of a card: a float, an int, a list of ints, None
\* (null), or a string (quoted; quoting and its inverse lose nothing).
DumpValue(key, v) ==
    IF key = "ease_factor" THEN [t |-> "float", float |-> FloatRepr(v)]
    ELSE IF key \in {"cp_loss", "interval_hours", "repetitions"}
         THEN [t |-> "int", int |-> Digits(v)]
    ELSE IF key = "quality_history"
         THEN [t |-> "list", list |-> [i \in 1..Len(v) |-> Digits(v[i])]]
    ELSE IF key = "motif" /\ v = "None" THEN [t |-> "null"]
    ELSE [t |-> "str", str |-> v]

\* json.loads of one value
LoadValue(key, j) ==
    IF j.t = "float" THEN ParseFloat(j.float)
    ELSE IF j.t = "int" THEN FromDigits(j.int)
    ELSE IF j.t = "list" THEN [i \in 1..Len(j.list) |-> FromDigits(j.list[i])]
    ELSE IF j.t = "null" THEN "None"
    ELSE j.str

\* A text is either the serialisation of a card list or some other text.
\* json.dumps(self._cards, indent=2, ensure_ascii=False): the array of the
\* cards' objects, keys in the cards' order.
JsonDumps(cs) ==
    [isDoc |-> TRUE, raw |-> "",
     doc |-> [i \in 1..Len(cs) |->
                 [key \in DOMAIN cs[i] |-> DumpValue(key, cs[i][key])]]]
RawText(raw) == [isDoc |-> FALSE, raw |-> raw, doc |-> <<>>]

\* Texts that are valid JSON but no array, and texts that are no JSON.
NonArrayTexts == {"{}", "42"}
InvalidTexts == {"{invalid json[[[", ""}

Absent == [exists |-> FALSE, text |-> RawText("")]
File(text) == [exists |-> TRUE, text |-> text]

\* json.loads followed by the isinstance(data, list) test: the list, or the
\* exception the except clause catches.
JsonLoads(text) ==
    IF text.isDoc
    THEN [ok |-> TRUE,
          data |-> [i \in 1..Len(text.doc) |->
                       [key \in DOMAIN text.doc[i] |->
                           LoadValue(key, text.doc[i][key])]],
          error |-> ""]
    ELSE IF text.raw \in NonArrayTexts
         THEN [ok |-> FALSE, data |-> <<>>, error |-> "ValueError"]
         ELSE [ok |-> FALSE, data |-> <<>>, error |-> "JSONDecodeError"]

\* Mutant: the except clause names json.JSONDecodeError alone.
CaughtErrorsNarrow == {"JSONDecodeError"}

\* The exceptions the except clause of _load_cards catches.
CaughtErrors == {"JSONDecodeError", "ValueError"}

\* _load_cards: the loaded list and the file system it leaves behind, or
\* the exception that escapes it.
LoadCards(fs) ==
    IF ~fs[CardsPath].exists
    THEN [raised |-> FALSE, cards |-> <<>>, files |-> fs]
    ELSE LET r == JsonLoads(fs[CardsPath].text)
         IN  IF r.ok
             THEN [raised |-> FALSE, cards |-> r.data, files |-> fs]
             ELSE IF r.error \in CaughtErrors
             THEN [raised |-> FALSE, cards |-> <<>>,
                   files |-> [fs EXCEPT ![BackupPath] = fs[CardsPath]]]
             ELSE [raised |-> TRUE, cards |-> <<>>, files |-> fs]

\* _save: the list is written to the .tmp file, which then replaces the store.
Save(fs, cs) ==
    LET written == [fs EXCEPT ![TmpPath] = File(JsonDumps(cs))]
    IN  [written EXCEPT ![CardsPath] = written[TmpPath], ![TmpPath] = Absent]

----------------------------------------------------------------------------
(* The SM-2 update *)

\* Mutant: the quadratic term of the SM-2 formula is left out.
EaseDeltaLinear(q) == 1000 - (5 - q) * 800

\* 0.1 - (5 - q) * (0.08 + (5 - q) * 0.02), in units of 1/EaseScale
EaseDelta(q) == 1000 - (5 - q) * (800 + (5 - q) * 200)

\* Mutant: the ease factor is not held at the floor.
NewEaseNoFloor(ef, q) == ef + EaseDelta(q)

\* ef = max(_MIN_EASE_FACTOR, ef + delta); round(ef, 4) keeps the unit
NewEase(ef, q) == Max(MinEaseFactor, ef + EaseDelta(q))

\* round(prev_interval * ef): the integers nearest to n / d.  On an exact
\* half the binary product lies on either side of it, and round goes either
\* way.
RoundNearest(n, d) ==
    LET q == n \div d
        r == n % d
    IN  IF 2 * r < d THEN {q}
        ELSE IF 2 * r > d THEN {q + 1}
        ELSE {q, q + 1}

\* Mutant: the ladder is indexed by the repetitions after the review.
PassIntervalsByNewCount(card, ef) ==
    IF card.repetitions + 1 < Len(IntervalHours)
    THEN {IntervalHours[card.repetitions + 2]}
    ELSE RoundNearest(card.interval_hours * ef, EaseScale)

\* The interval a passing review may give: the ladder is indexed by the
\* repetitions before the review.
PassIntervals(card, ef) ==
    IF card.repetitions < Len(IntervalHours)
    THEN {IntervalHours[card.repetitions + 1]}
    ELSE RoundNearest(card.interval_hours * ef, EaseScale)

\* Mutant: a failing review takes one repetition off.
FailScheduleCountsDown(card) ==
    [interval_hours |-> IntervalHours[1],
     repetitions |-> IF card.repetitions > 0 THEN card.repetitions - 1 ELSE 0]

\* Mutant: a failing review resets the interval and keeps the repetitions.
FailScheduleKeepsRepetitions(card) ==
    [interval_hours |-> IntervalHours[1], repetitions |-> card.repetitions]

\* The branch quality < 3: reset to the first interval.
FailSchedule(card) ==
    [interval_hours |-> IntervalHours[1], repetitions |-> 0]

\* Mutant: a passing review does not count the repetition.
PassSchedulesStuck(card, ef) ==
    {[interval_hours |-> iv, repetitions |-> card.repetitions] :
        iv \in PassIntervals(card, ef)}

\* The branch quality >= 3: advance.
PassSchedules(card, ef) ==
    {[interval_hours |-> iv, repetitions |-> card.repetitions + 1] :
        iv \in PassIntervals(card, ef)}

\* Mutant: the history keeps the latest quality only.
NewHistoryLatestOnly(card, quality) == <<quality>>

\* [*card["quality_history"], quality]
NewHistory(card, quality) == Append(card.quality_history, quality)

\* Mutant: the next review is counted from the card's creation.
Sm2UpdateFromCreation(card, quality, t) ==
    LET ef == NewEase(card.ease_factor, quality)
        schedules == IF quality < 3 THEN {FailSchedule(card)}
                     ELSE PassSchedules(card, ef)
    IN  {[card EXCEPT !.quality_history = Append(card.quality_history, quality),
                      !.ease_factor = ef,
                      !.interval_hours = sch.interval_hours,
                      !.repetitions = sch.repetitions,
                      !.next_review =
                          IsoFormat(AddHours(FromIsoFormat(card.created_at),
                                             sch.interval_hours))] :
            sch \in schedules}

\* _sm2_update: the updated copies of the card a review at time t may give.
Sm2Update(card, quality, t) ==
    LET ef == NewEase(card.ease_factor, quality)
        schedules == IF quality < 3 THEN {FailSchedule(card)}
                     ELSE PassSchedules(card, ef)
    IN  {[card EXCEPT !.quality_history = NewHistory(card, quality),
                      !.ease_factor = ef,
                      !.interval_hours = sch.interval_hours,
                      !.repetitions = sch.repetitions,
                      !.next_review = IsoFormat(AddHours(t, sch.interval_hours))] :
            sch \in schedules}

----------------------------------------------------------------------------
(* The scheduler's operations *)

NoQuality == [int |-> TRUE, val |-> 0]
IntQ(v) == [int |-> TRUE, val |-> v]
FloatQ(v) == [int |-> FALSE, val |-> v]

\* The card contents add_card is given.
Contents ==
    { [fen |-> "fen-1", player_move |-> "e5", best_move |-> "d5",
       cp_loss |-> 45, classification |-> "inaccuracy",
       motif |-> "None", explanation |-> "controls the center"] }

NoContent ==
    [fen |-> "", player_move |-> "", best_move |-> "", cp_loss |-> 0,
     classification |-> "", motif |-> "None", explanation |-> ""]

Call(op, id, quality, content, outcome, ret) ==
    [op |-> op, id |-> id, quality |-> quality, content |-> content,
     outcome |-> outcome, ret |-> ret,
     at |-> now, cardsBefore |-> cards, filesBefore |-> files]

\* Mutant: the first review is due at the creation time.
NewCardDueNow(i, c, t) ==
    [id |-> i, fen |-> c.fen, player_move |-> c.player_move,
     best_move |-> c.best_move, cp_loss |-> c.cp_loss,
     classification |-> c.classification, motif |-> c.motif,
     explanation |-> c.explanation,
     created_at |-> IsoFormat(t),
     next_review |-> IsoFormat(t),
     interval_hours |-> IntervalHours[1],
     ease_factor |-> InitialEase,
     repetitions |-> 0,
     quality_history |-> <<>>]

\* The card add_card builds at time t with id i.
NewCard(i, c, t) ==
    [id |-> i, fen |-> c.fen, player_move |-> c.player_move,
     best_move |-> c.best_move, cp_loss |-> c.cp_loss,
     classification |-> c.classification, motif |-> c.motif,
     explanation |-> c.explanation,
     created_at |-> IsoFormat(t),
     next_review |-> IsoFormat(AddHours(t, IntervalHours[1])),
     interval_hours |-> IntervalHours[1],
     ease_factor |-> InitialEase,
     repetitions |-> 0,
     quality_history |-> <<>>]

\* SRSManager(cards_path): __init__ loads the cards.  When the load raises
\* there is no new instance.
Construct ==
    LET r == LoadCards(files)
    IN  IF r.raised
        THEN /\ last' = Call("construct", 0, NoQuality, NoContent, "raised", <<>>)
             /\ UNCHANGED <<files, cards, phase, now, issued, scheduled, succeeded, peer, probe, server>>
        ELSE /\ cards' = r.cards
             /\ files' = r.files
             /\ phase' = "open"
             /\ last' = Call("construct", 0, NoQuality, NoContent, "ok", <<>>)
             /\ UNCHANGED <<now, issued, scheduled, succeeded, peer, probe, server>>

\* add_card
AddCard(c) ==
    /\ phase = "open"
    /\ LET card == NewCard(issued + 1, c, now)
       IN  /\ cards' = Append(cards, card)
           /\ files' = Save(files, cards')
           /\ issued' = issued + 1
           /\ scheduled' = Append(scheduled, now)
           /\ succeeded' = Append(succeeded, 0)
           /\ last' = Call("add_card", card.id, NoQuality, c, "ok", <<card>>)
    /\ UNCHANGED <<phase, now, peer, probe, server>>

\* card[key] raises KeyError on a loaded record that has no such key.
HasKey(c, key) == key \in DOMAIN c

\* list.sort(key = next_review): a stable insertion by the timestamp strings.
RECURSIVE InsertByKey(_, _)
InsertByKey(c, sorted) ==
    IF sorted = <<>> THEN <<c>>
    ELSE IF StrLess(c.next_review, Head(sorted).next_review)
         THEN <<c>> \o sorted
         ELSE <<Head(sorted)>> \o InsertByKey(c, Tail(sorted))

RECURSIVE SortByNextReview(_)
SortByNextReview(cs) ==
    IF cs = <<>> THEN <<>>
    ELSE InsertByKey(cs[Len(cs)], SortByNextReview(SubSeq(cs, 1, Len(cs) - 1)))

\* The loop of get_due_cards: the cards whose review time is not after t.
DueFilter(cs, t) ==
    SelectSeq(cs, LAMBDA c : FromIsoFormat(c.next_review) <= t)

\* Mutant: the due cards are returned in the order of the collection.
DueCardsUnsorted(cs, t) == DueFilter(cs, t)

\* get_due_cards: filter, then sort.
DueCards(cs, t) == SortByNextReview(DueFilter(cs, t))

\* get_due_cards: the loop reads card["next_review"] of every card.
GetDueCards ==
    /\ phase = "open"
    /\ IF \A i \in 1..Len(cards) : HasKey(cards[i], "next_review")
       THEN last' = Call("get_due_cards", 0, NoQuality, NoContent, "ok",
                         DueCards(cards, now))
       ELSE last' = Call("get_due_cards", 0, NoQuality, NoContent, "KeyError",
                         <<>>)
    /\ UNCHANGED <<files, cards, phase, now, issued, scheduled, succeeded, peer, probe, server>>

\* Mutant: a card counts as due only after its review time.
StatsDueStrict(cs, t) ==
    Cardinality({i \in 1..Len(cs) : FromIsoFormat(cs[i].next_review) < t})

\* due_count of get_stats: the cards whose review time is not after t.
StatsDue(cs, t) ==
    Cardinality({i \in 1..Len(cs) : FromIsoFormat(cs[i].next_review) <= t})

RECURSIVE EaseSum(_)
EaseSum(cs) ==
    IF cs = <<>> THEN 0 ELSE Head(cs).ease_factor + EaseSum(Tail(cs))

\* round(ease_sum / total, 3), in thousandths; 0.0 without cards.
AvgEases(cs) ==
    IF Len(cs) > 0 THEN RoundNearest(EaseSum(cs), Len(cs) * (EaseScale \div 1000))
    ELSE {0}

\* by_classification: the count of cards per classification that occurs.
ByClassification(cs) ==
    [cls \in {cs[i].classification : i \in 1..Len(cs)} |->
        Cardinality({i \in 1..Len(cs) : cs[i].classification = cls})]

StatsKeys == {"next_review", "ease_factor", "classification"}

\* get_stats
GetStats ==
    /\ phase = "open"
    /\ IF \A i \in 1..Len(cards) : \A key \in StatsKeys : HasKey(cards[i], key)
       THEN \E avg \in AvgEases(cards) :
                last' = Call("get_stats", 0, NoQuality, NoContent, "ok",
                             <<[total |-> Len(cards),
                                due |-> StatsDue(cards, now),
                                avg_ease |-> avg,
                                by_classification |-> ByClassification(cards)]>>)
       ELSE last' = Call("get_stats", 0, NoQuality, NoContent, "KeyError", <<>>)
    /\ UNCHANGED <<files, cards, phase, now, issued, scheduled, succeeded, peer, probe, server>>

\* Mutant: the test has no lower bound.
QualityValidNoLowerBound(quality) == quality.int /\ quality.val <= 5

\* The test of review_card on its quality argument.
QualityValid(quality) == quality.int /\ quality.val >= 0 /\ quality.val <= 5

\* _find_card: the first card with the id, if any.
FindCard(cs, id) ==
    LET hits == {i \in 1..Len(cs) : cs[i].id = id}
    IN  IF hits = {} THEN 0
        ELSE CHOOSE i \in hits : \A j \in hits : i <= j

\* Mutant: the rebuilt list holds the updated card in every place.
ReplaceCardEverywhere(cs, id, updated) == [i \in 1..Len(cs) |-> updated]

\* The list review_card rebuilds: every card with the id is replaced.
ReplaceCard(cs, id, updated) ==
    [i \in 1..Len(cs) |-> IF cs[i].id = id THEN updated ELSE cs[i]]

\* review_card
ReviewCard(id, quality) ==
    /\ phase = "open"
    /\ IF ~QualityValid(quality)
       THEN /\ last' = Call("review_card", id, quality, NoContent,
                            "InvalidArgument", <<>>)
            /\ UNCHANGED <<files, cards, scheduled, succeeded>>
       ELSE IF FindCard(cards, id) = 0
       THEN /\ last' = Call("review_card", id, quality, NoContent,
                            "NotFound", <<>>)
            /\ UNCHANGED <<files, cards, scheduled, succeeded>>
       ELSE \E updated \in Sm2Update(cards[FindCard(cards, id)], quality.val, now) :
            /\ cards' = ReplaceCard(cards, id, updated)
            /\ files' = Save(files, cards')
            /\ scheduled' = [scheduled EXCEPT ![id] = now]
            /\ succeeded' = [succeeded EXCEPT ![id] = @ + 1]
            /\ last' = Call("review_card", id, quality, NoContent, "ok",
                            <<updated>>)
    /\ UNCHANGED <<phase, now, issued, peer, probe, server>>

\* Time passes: four hours, or to an instant inside the current hour.
Tick(d) ==
    /\ now + d <= MaxNow
    /\ d = 1 => (now % 2) = 0
    /\ now' = now + d
    /\ last' = Call("tick", 0, NoQuality, NoContent, "ok", <<>>)
    /\ UNCHANGED <<files, cards, phase, issued, scheduled, succeeded, peer, probe, server>>

----------------------------------------------------------------------------
(* The scheduler specification: one store, one instance, every operation *)

\* The qualities review_card is called with: in range, out of range, no int.
QualityInputs == {IntQ(0), IntQ(4), IntQ(0 - 1), IntQ(6), FloatQ(4)}

\* The ids review_card is called with: 0 is the id of no card.
IdInputs == 0..MaxCards

\* The steps of the clock: an instant inside the hour, or four hours.
TickSteps == {1, 2 * IntervalHours[1]}

\* The motif detector before its first call.
NoProbe == [fn |-> "none"]

\* What a tool call leaves in the game server: the games (_games) and the
\* record of the call.
Served(games, op, id, error, popped, pair) ==
    [games |-> games,
     call |-> [op |-> op, id |-> id, error |-> error, popped |-> popped,
               pair |-> pair]]

\* The second instance before its construction.
NoPeer == [phase |-> "closed", cards |-> <<>>]

NoCall(fs) ==
    [op |-> "none", id |-> 0, quality |-> NoQuality, content |-> NoContent,
     outcome |-> "ok", ret |-> <<>>, at |-> 0, cardsBefore |-> <<>>,
     filesBefore |-> fs]

\* Before the first construction, with the store file holding f and the
\* backup file holding b.
Start(f, b) ==
    /\ files = [p \in Paths |-> IF p = CardsPath THEN f
                                ELSE IF p = BackupPath THEN b ELSE Absent]
    /\ cards = <<>>
    /\ phase = "closed"
    /\ now = 0
    /\ issued = 0
    /\ scheduled = <<>>
    /\ succeeded = <<>>
    /\ peer = NoPeer
    /\ probe = NoProbe
    /\ server = Served(<<>>, "none", 0, FALSE, 0, FALSE)
    /\ last = NoCall(files)

\* The store is missing or holds the empty list.
Init == \E f \in {Absent, File(JsonDumps(<<>>))} : Start(f, Absent)

RECURSIVE TotalReviews(_)
TotalReviews(cs) ==
    IF cs = <<>> THEN 0
    ELSE Len(Head(cs).quality_history) + TotalReviews(Tail(cs))

\* Whether review_card(id, quality) will succeed.
WillSucceed(id, quality) == QualityValid(quality) /\ FindCard(cards, id) # 0

Next ==
    \/ Construct
    \/ \E c \in Contents : Len(cards) < MaxCards /\ AddCard(c)
    \/ \E id \in IdInputs, q \in QualityInputs :
          /\ WillSucceed(id, q) => TotalReviews(cards) < MaxSessionReviews
          /\ ReviewCard(id, q)
    \/ GetDueCards
    \/ \E d \in TickSteps : Tick(d)

Spec == Init /\ [][Next]_vars

----------------------------------------------------------------------------
(* The load specification: construction on any store file *)

\* A JSON array whose one element is an object with no next_review.
IncompleteCards == <<[fen |-> "fen-1", classification |-> "blunder"]>>

InitialStores ==
    {Absent, File(JsonDumps(<<>>)), File(JsonDumps(IncompleteCards))}
        \cup {File(RawText(raw)) : raw \in InvalidTexts \cup NonArrayTexts}

\* An earlier recovery may have left a backup behind.
InitialBackups == {Absent, File(RawText("an older backup"))}

InitLoad == \E f \in InitialStores, b \in InitialBackups : Start(f, b)

NextLoad ==
    \/ Construct
    \/ \E c \in Contents : Len(cards) < MaxCards /\ AddCard(c)
    \/ GetDueCards
    \/ \E d \in TickSteps : Tick(d)

SpecLoad == InitLoad /\ [][NextLoad]_vars

----------------------------------------------------------------------------
(* The review specifications: one freshly added card is reviewed *)

\* The scheduler after construction on an empty store and n add_card calls.
RECURSIVE FreshCards(_)
FreshCards(n) ==
    IF n = 0 THEN <<>>
    ELSE Append(FreshCards(n - 1), NewCard(n, CHOOSE c \in Contents : TRUE, 0))

Fresh(n) ==
    /\ cards = FreshCards(n)
    /\ files = Save([p \in Paths |-> Absent], cards)
    /\ phase = "open"
    /\ now = 0
    /\ issued = n
    /\ scheduled = [i \in 1..n |-> 0]
    /\ succeeded = [i \in 1..n |-> 0]
    /\ peer = NoPeer
    /\ probe = NoProbe
    /\ server = Served(<<>>, "none", 0, FALSE, 0, FALSE)
    /\ last = [op |-> "add_card", id |-> n, quality |-> NoQuality,
               content |-> CHOOSE c \in Contents : TRUE, outcome |-> "ok",
               ret |-> <<cards[n]>>, at |-> 0,
               cardsBefore |-> FreshCards(n - 1),
               filesBefore |-> Save([p \in Paths |-> Absent], FreshCards(n - 1))]

Reviews(id) == Len(cards[FindCard(cards, id)].quality_history)
HasLapsed(id) ==
    \E i \in 1..Reviews(id) : cards[FindCard(cards, id)].quality_history[i] < 3

\* The ladder: the card is reviewed with any quality, and fails at most once.
InitLadder == Fresh(1)

NextLadder ==
    \E q \in 0..5 :
        /\ Reviews(1) < MaxReviews
        /\ q < 3 => ~HasLapsed(1)
        /\ ReviewCard(1, IntQ(q))

SpecLadder == InitLadder /\ [][NextLadder]_vars

\* The grades: the card is reviewed with any qualities in any order.
InitGrades == Fresh(1)

NextGrades ==
    \E q \in 0..5 : Reviews(1) < MaxGrades /\ ReviewCard(1, IntQ(q))

SpecGrades == InitGrades /\ [][NextGrades]_vars

\* The history: the card is reviewed with any qualities, calls are rejected,
\* the due cards are read and the scheduler is constructed anew in between.
InitHistory == Fresh(1)

NextHistory ==
    \/ \E q \in 0..5 : Reviews(1) < MaxHistory /\ ReviewCard(1, IntQ(q))
    \/ \E q \in {IntQ(6), FloatQ(4)} : ReviewCard(1, q)
    \/ ReviewCard(0, IntQ(4))
    \/ GetDueCards
    \/ Construct

SpecHistory == InitHistory /\ [][NextHistory]_vars

\* The statistics: cards of two classifications are added and reviewed, and
\* the statistics are read.
StatsContents ==
    { [fen |-> "fen-1", player_move |-> "e5", best_move |-> "d5",
       cp_loss |-> 45, classification |-> cls,
       motif |-> "None", explanation |-> "controls the center"] :
        cls \in {"inaccuracy", "blunder"} }

NextStats ==
    \/ phase = "closed" /\ Construct
    \/ \E c \in StatsContents : Len(cards) < MaxStatsCards /\ AddCard(c)
    \/ \E id \in 1..MaxStatsCards, q \in {IntQ(1), IntQ(5)} :
          /\ WillSucceed(id, q)
          /\ TotalReviews(cards) < MaxSessionReviews
          /\ ReviewCard(id, q)
    \/ Tick(2 * IntervalHours[1])
    \/ GetStats

SpecStats == Start(Absent, Absent) /\ [][NextStats]_vars

\* The store: one scheduler instance adds and reviews cards, reads the due
\* cards and the statistics, is called with bad arguments, and is constructed
\* anew on the same path.
NextStore ==
    \/ Construct
    \/ \E c \in Contents : Len(cards) < MaxStoreCards /\ AddCard(c)
    \/ \E id \in 0..MaxStoreCards, q \in {IntQ(3), IntQ(5), IntQ(6)} :
          /\ WillSucceed(id, q) => TotalReviews(cards) < MaxStoreReviews
          /\ ReviewCard(id, q)
    \/ GetDueCards
    \/ GetStats
    \/ Tick(1)

SpecStore == Init /\ [][NextStore]_vars

\* The shared store: two scheduler instances on one store, whose calls are
\* made one after the other, each on either instance.
Turn ==
    /\ cards' = peer.cards
    /\ phase' = peer.phase
    /\ peer' = [phase |-> phase, cards |-> cards]
    /\ last' = Call("turn", 0, NoQuality, NoContent, "ok", <<>>)
    /\ UNCHANGED <<files, now, issued, scheduled, succeeded, probe, server>>

RECURSIVE SumSeq(_)
SumSeq(q) == IF q = <<>> THEN 0 ELSE Head(q) + SumSeq(Tail(q))

NextShared ==
    \/ phase = "closed" /\ Construct
    \/ \E c \in Contents : issued < MaxSharedCards /\ AddCard(c)
    \/ \E id \in 1..MaxSharedCards, q \in {IntQ(4), IntQ(6)} :
          /\ id <= issued
          /\ SumSeq(succeeded) < MaxSharedReviews
          /\ ReviewCard(id, q)
    \/ Turn
    \/ Tick(2 * IntervalHours[1])

SpecShared == Start(Absent, Absent) /\ [][NextShared]_vars

\* The lapses: two cards are reviewed with quality 0 only.
InitLapse == Fresh(2)

NextLapse ==
    \E id \in 1..2 : Reviews(id) < MaxLapseReviews /\ ReviewCard(id, IntQ(0))

SpecLapse == InitLapse /\ [][NextLapse]_vars

----------------------------------------------------------------------------
(* The chess position of the motif detector: the chess library's Board      *)
(* as scripts/motif_detector.py uses it.  A square is rank * 8 + file, both *)
(* counted from 0; WHITE is TRUE and BLACK is FALSE.                        *)

PAWN == 1
KNIGHT == 2
BISHOP == 3
ROOK == 4
QUEEN == 5
KING == 6

WHITE == TRUE
BLACK == FALSE

SQUARES == 0..63

\* chess.square_rank, chess.square_file, chess.square
SquareRank(sq) == sq \div 8
SquareFile(sq) == sq % 8
Square(file, rank) == rank * 8 + file

\* piece_at gives a piece or None.
None == [piece_type |-> 0, color |-> FALSE]
Piece(piece_type, color) == [piece_type |-> piece_type, color |-> color]
PieceAt(board, sq) == board.pieces[sq]

\* Ray direction vectors (d_rank, d_file)
RookDirections == << <<1, 0>>, <<0 - 1, 0>>, <<0, 1>>, <<0, 0 - 1>> >>
BishopDirections == << <<1, 1>>, <<1, 0 - 1>>, <<0 - 1, 1>>, <<0 - 1, 0 - 1>> >>
KnightSteps ==
    { <<1, 2>>, <<2, 1>>, <<2, 0 - 1>>, <<1, 0 - 2>>,
      <<0 - 1, 0 - 2>>, <<0 - 2, 0 - 1>>, <<0 - 2, 1>>, <<0 - 1, 2>> }
KingSteps ==
    { <<1, 0>>, <<0 - 1, 0>>, <<0, 1>>, <<0, 0 - 1>>,
      <<1, 1>>, <<1, 0 - 1>>, <<0 - 1, 1>>, <<0 - 1, 0 - 1>> }

OnBoard(rank, file) == rank >= 0 /\ rank <= 7 /\ file >= 0 /\ file <= 7

\* The squares a step away from sq, for each step that stays on the board.
StepSquares(sq, steps) ==
    { Square(SquareFile(sq) + st[2], SquareRank(sq) + st[1]) :
        st \in { x \in steps :
                   OnBoard(SquareRank(sq) + x[1], SquareFile(sq) + x[2]) } }

\* The squares a slider on sq attacks in one direction: up to and including
\* the first occupied square.
SlideSquares(pieces, sq, d) ==
    LET r == SquareRank(sq)
        f == SquareFile(sq)
        At(k) == Square(f + k * d[2], r + k * d[1])
    IN  { At(k) : k \in { n \in 1..7 :
                            /\ OnBoard(r + n * d[1], f + n * d[2])
                            /\ \A j \in 1..(n - 1) :
                                   pieces[At(j)].piece_type = 0 } }

SlideAll(pieces, sq, dirs) ==
    UNION { SlideSquares(pieces, sq, dirs[i]) : i \in 1..Len(dirs) }

\* The squares a pawn of the colour attacks from sq.
PawnAttacks(color, sq) ==
    StepSquares(sq, IF color = WHITE THEN {<<1, 1>>, <<1, 0 - 1>>}
                    ELSE {<<0 - 1, 1>>, <<0 - 1, 0 - 1>>})

\* Board.attacks: the squares attacked from sq by the piece standing on it;
\* none when the square is empty.
AttacksOn(pieces, sq) ==
    LET p == pieces[sq]
    IN  IF p.piece_type = PAWN THEN PawnAttacks(p.color, sq)
        ELSE IF p.piece_type = KNIGHT THEN StepSquares(sq, KnightSteps)
        ELSE IF p.piece_type = KING THEN StepSquares(sq, KingSteps)
        ELSE IF p.piece_type = BISHOP THEN SlideAll(pieces, sq, BishopDirections)
        ELSE IF p.piece_type = ROOK THEN SlideAll(pieces, sq, RookDirections)
        ELSE IF p.piece_type = QUEEN
             THEN SlideAll(pieces, sq, BishopDirections)
                      \cup SlideAll(pieces, sq, RookDirections)
        ELSE {}

Attacks(board, sq) == AttacksOn(board.pieces, sq)

\* Board.attackers: the squares of the colour's pieces that attack sq.
Attackers(board, color, sq) ==
    { s \in SQUARES :
        /\ board.pieces[s].piece_type # 0
        /\ board.pieces[s].color = color
        /\ sq \in Attacks(board, s) }

\* Board.king: the square of the colour's king, or NoSquare.
NoSquare == 64
King(board, color) ==
    LET ks == { s \in SQUARES : board.pieces[s] = Piece(KING, color) }
    IN  IF ks = {} THEN NoSquare ELSE CHOOSE s \in ks : TRUE

\* Board.checkers: the pieces that give check to the side to move.
Checkers(board) ==
    LET king == King(board, board.turn)
    IN  IF king = NoSquare THEN {} ELSE Attackers(board, ~board.turn, king)

\* Board.is_check
IsCheck(board) == Checkers(board) # {}

\* A move: from_square, to_square, promotion (a piece type, or 0 for None).
Move(from, to, promotion) ==
    [from_square |-> from, to_square |-> to, promotion |-> promotion]

\* The back rank and the pawns' home rank of a colour.
BackRank(color) == IF color = WHITE THEN 0 ELSE 7
PawnRank(color) == IF color = WHITE THEN 1 ELSE 6
Forward(color) == IF color = WHITE THEN 8 ELSE 0 - 8

IsCastling(board, move) ==
    /\ board.pieces[move.from_square].piece_type = KING
    /\ Abs(SquareFile(move.to_square) - SquareFile(move.from_square)) > 1

IsEnPassant(board, move) ==
    /\ board.pieces[move.from_square].piece_type = PAWN
    /\ move.to_square = board.ep_square
    /\ Abs(move.to_square - move.from_square) \in {7, 9}
    /\ board.pieces[move.to_square].piece_type = 0

\* Board.push: the position after the move.
Push(board, move) ==
    LET from == move.from_square
        to == move.to_square
        piece == board.pieces[from]
        color == board.turn
        placed == IF move.promotion # 0 THEN Piece(move.promotion, piece.color)
                  ELSE piece
        castling == IsCastling(board, move)
        kingside == SquareFile(to) > SquareFile(from)
        rookFrom == Square(IF kingside THEN 7 ELSE 0, SquareRank(from))
        rookTo == Square(IF kingside THEN 5 ELSE 3, SquareRank(from))
        captured == IF IsEnPassant(board, move) THEN to - Forward(color) ELSE to
        doublePush == /\ piece.piece_type = PAWN
                      /\ to - from = 2 * Forward(color)
                      /\ SquareRank(from) = PawnRank(color)
        lost == {from, to}
                    \cup (IF piece.piece_type = KING
                          THEN {Square(0, BackRank(color)), Square(7, BackRank(color))}
                          ELSE {})
    IN  [pieces |->
             [sq \in SQUARES |->
                 IF sq = to THEN placed
                 ELSE IF sq = from \/ sq = captured THEN None
                 ELSE IF castling /\ sq = rookFrom THEN None
                 ELSE IF castling /\ sq = rookTo THEN Piece(ROOK, color)
                 ELSE board.pieces[sq]],
         turn |-> ~color,
         ep_square |-> IF doublePush THEN from + Forward(color) ELSE NoSquare,
         castling_rights |-> board.castling_rights \ lost]

\* The side that has moved does not stand in check.
KingSafe(after, color) ==
    LET king == King(after, color)
    IN  king = NoSquare \/ Attackers(after, ~color, king) = {}

PromotionTypes == {QUEEN, ROOK, BISHOP, KNIGHT}

\* The moves of a pawn a square offers: to is reached from sq.
PawnMovesTo(board, sq, to) ==
    IF SquareRank(to) = BackRank(~board.turn)
    THEN {Move(sq, to, t) : t \in PromotionTypes}
    ELSE {Move(sq, to, 0)}

\* Pseudo-legal pawn moves: captures, en passant, single and double pushes.
PawnMoves(board, sq) ==
    LET color == board.turn
        one == sq + Forward(color)
        two == sq + 2 * Forward(color)
        empty(x) == board.pieces[x].piece_type = 0
        captures == { to \in PawnAttacks(color, sq) :
                        \/ ~empty(to) /\ board.pieces[to].color # color
                        \/ to = board.ep_square /\ empty(to) }
        pushes == IF one \in SQUARES /\ empty(one)
                  THEN {one} \cup (IF SquareRank(sq) = PawnRank(color) /\ empty(two)
                                   THEN {two} ELSE {})
                  ELSE {}
    IN  UNION { PawnMovesTo(board, sq, to) : to \in captures \cup pushes }

\* Pseudo-legal moves of the other pieces: to squares they attack that hold
\* no piece of their own colour.
PieceMoves(board, sq) ==
    { Move(sq, to, 0) :
        to \in { x \in Attacks(board, sq) :
                   \/ board.pieces[x].piece_type = 0
                   \/ board.pieces[x].color # board.turn } }

\* Castling: the king and the rook have their rights, the squares between
\* them are empty, and the king neither stands on, crosses nor reaches an
\* attacked square.
CastlingMoves(board, sq) ==
    LET color == board.turn
        rank == BackRank(color)
        side(rookFile, kingTo, between, crossed) ==
            IF /\ sq = Square(4, rank)
               /\ Square(rookFile, rank) \in board.castling_rights
               /\ board.pieces[Square(rookFile, rank)] = Piece(ROOK, color)
               /\ \A f \in between : board.pieces[Square(f, rank)].piece_type = 0
               /\ \A f \in crossed : Attackers(board, ~color, Square(f, rank)) = {}
            THEN {Move(sq, Square(kingTo, rank), 0)}
            ELSE {}
    IN  side(7, 6, {5, 6}, {4, 5, 6}) \cup side(0, 2, {1, 2, 3}, {4, 3, 2})

\* Board.legal_moves: the pseudo-legal moves that leave the own king safe.
LegalMovesFrom(board, sq) ==
    LET p == board.pieces[sq]
        pseudo == IF p.piece_type = 0 \/ p.color # board.turn THEN {}
                  ELSE IF p.piece_type = PAWN THEN PawnMoves(board, sq)
                  ELSE IF p.piece_type = KING
                       THEN PieceMoves(board, sq) \cup CastlingMoves(board, sq)
                  ELSE PieceMoves(board, sq)
    IN  { m \in pseudo : KingSafe(Push(board, m), board.turn) }

LegalMoves(board) == UNION { LegalMovesFrom(board, sq) : sq \in SQUARES }

\* Board.is_checkmate: in check, and no legal move.
IsCheckmate(board) ==
    /\ IsCheck(board)
    /\ \A sq \in SQUARES : LegalMovesFrom(board, sq) = {}

\* Two squares on one rank, file or diagonal, and the squares of the line
\* through them (chess.ray) and strictly between them (chess.between).
Aligned(a, b) ==
    /\ a # b
    /\ \/ SquareRank(a) = SquareRank(b)
       \/ SquareFile(a) = SquareFile(b)
       \/ Abs(SquareRank(a) - SquareRank(b)) = Abs(SquareFile(a) - SquareFile(b))

OnLine(a, b, x) ==
    (SquareRank(x) - SquareRank(a)) * (SquareFile(b) - SquareFile(a))
        = (SquareFile(x) - SquareFile(a)) * (SquareRank(b) - SquareRank(a))

Ray(a, b) == IF Aligned(a, b) THEN { x \in SQUARES : OnLine(a, b, x) } ELSE {}

Between(a, b) ==
    { x \in Ray(a, b) :
        /\ x # a /\ x # b
        /\ Abs(SquareRank(x) - SquareRank(a)) <= Abs(SquareRank(b) - SquareRank(a))
        /\ Abs(SquareRank(x) - SquareRank(b)) <= Abs(SquareRank(b) - SquareRank(a))
        /\ Abs(SquareFile(x) - SquareFile(a)) <= Abs(SquareFile(b) - SquareFile(a))
        /\ Abs(SquareFile(x) - SquareFile(b)) <= Abs(SquareFile(b) - SquareFile(a)) }

\* The enemy sliders that hold the square pinned to the colour's king: they
\* stand on a line with the king that their kind moves along, and the square
\* is the only occupied square between them and the king once it is counted
\* as occupied.
Snipers(board, color, square) ==
    LET king == King(board, color)
        straight(s) == SquareRank(s) = SquareRank(king)
                           \/ SquareFile(s) = SquareFile(king)
    IN  { s \in SQUARES :
            /\ king # NoSquare
            /\ Aligned(king, s)
            /\ board.pieces[s].color # color
            /\ \/ board.pieces[s].piece_type = QUEEN
               \/ board.pieces[s].piece_type = ROOK /\ straight(s)
               \/ board.pieces[s].piece_type = BISHOP /\ ~straight(s)
            /\ { x \in Between(s, king) :
                   board.pieces[x].piece_type # 0 \/ x = square } = {square} }

\* Board.pin: the line of the pin, or every square when there is no pin.
Pin(board, color, square) ==
    LET snipers == Snipers(board, color, square)
    IN  IF snipers = {} THEN SQUARES
        ELSE Ray(King(board, color), CHOOSE s \in snipers : TRUE)

\* Board.is_pinned
IsPinned(board, color, square) == Pin(board, color, square) # SQUARES

----------------------------------------------------------------------------
(* The motif detector *)

\* _PIECE_VALUES and _piece_value
PieceValues == <<1, 3, 3, 5, 9, 100>>
PieceValue(piece_type) ==
    IF piece_type \in 1..Len(PieceValues) THEN PieceValues[piece_type] ELSE 0

\* An enemy piece worth a knight or more stands on the square.
Valuable(board, sq, enemy_color) ==
    LET victim == PieceAt(board, sq)
    IN  /\ victim.piece_type # 0
        /\ victim.color = enemy_color
        /\ PieceValue(victim.piece_type) >= 3

\* Mutant: the enemy pieces attacked by any piece of the mover's side count.
DetectForkAnyAttacker(board, move) ==
    LET board_after == Push(board, move)
        moved_piece == PieceAt(board_after, move.to_square)
        enemy_color == ~moved_piece.color
        attacked_valuable ==
            Cardinality({ sq \in SQUARES :
                            /\ Valuable(board_after, sq, enemy_color)
                            /\ Attackers(board_after, moved_piece.color, sq) # {} })
    IN  /\ moved_piece.piece_type # 0
        /\ attacked_valuable >= 2

\* _detect_fork
DetectFork(board, move) ==
    LET board_after == Push(board, move)
        to_sq == move.to_square
        moved_piece == PieceAt(board_after, to_sq)
        enemy_color == ~moved_piece.color
        attacked_valuable ==
            Cardinality({ sq \in Attacks(board_after, to_sq) :
                            Valuable(board_after, sq, enemy_color) })
    IN  /\ moved_piece.piece_type # 0
        /\ attacked_valuable >= 2

Sliders == {BISHOP, ROOK, QUEEN}

\* _detect_pin
DetectPin(board, move) ==
    LET board_after == Push(board, move)
        to_sq == move.to_square
        moved_piece == PieceAt(board_after, to_sq)
        enemy_color == ~moved_piece.color
    IN  /\ moved_piece.piece_type # 0
        /\ moved_piece.piece_type \in Sliders
        /\ \E sq \in SQUARES :
               LET piece == PieceAt(board_after, sq)
               IN  /\ piece.piece_type # 0
                   /\ piece.color = enemy_color
                   /\ piece.piece_type \notin {KING, QUEEN}
                   /\ IsPinned(board_after, enemy_color, sq)
                   /\ to_sq \in Pin(board_after, enemy_color, sq)

\* _scan_ray: the piece types of the target colour's pieces met from the
\* square k steps along the ray on, up to the first piece of the other colour
\* or the edge of the board.
\* Mutant: a piece of the other colour does not end the scan.
RECURSIVE ScanFromThroughFriends(_, _, _, _, _, _)
ScanFromThroughFriends(board, from_sq, d_rank, d_file, target_color, k) ==
    LET rank == SquareRank(from_sq) + k * d_rank
        file == SquareFile(from_sq) + k * d_file
    IN  IF ~OnBoard(rank, file) THEN <<>>
        ELSE LET sq == Square(file, rank)
                 piece == PieceAt(board, sq)
                 rest == ScanFromThroughFriends(board, from_sq, d_rank, d_file,
                                                target_color, k + 1)
             IN  IF piece.piece_type # 0 /\ piece.color = target_color
                 THEN << <<sq, piece.piece_type>> >> \o rest
                 ELSE rest

RECURSIVE ScanFrom(_, _, _, _, _, _)
ScanFrom(board, from_sq, d_rank, d_file, target_color, k) ==
    LET rank == SquareRank(from_sq) + k * d_rank
        file == SquareFile(from_sq) + k * d_file
    IN  IF ~OnBoard(rank, file) THEN <<>>
        ELSE LET sq == Square(file, rank)
                 piece == PieceAt(board, sq)
                 rest == ScanFrom(board, from_sq, d_rank, d_file, target_color, k + 1)
             IN  IF piece.piece_type = 0 THEN rest
                 ELSE IF piece.color = target_color
                      THEN << <<sq, piece.piece_type>> >> \o rest
                      ELSE <<>>

ScanRay(board, from_sq, d_rank, d_file, target_color) ==
    ScanFrom(board, from_sq, d_rank, d_file, target_color, 1)

\* The ray directions of a sliding piece.
RayDirections(piece_type) ==
    (IF piece_type \in {ROOK, QUEEN} THEN RookDirections ELSE <<>>)
        \o (IF piece_type \in {BISHOP, QUEEN} THEN BishopDirections ELSE <<>>)

\* _detect_skewer
DetectSkewer(board, move) ==
    LET board_after == Push(board, move)
        to_sq == move.to_square
        moved_piece == PieceAt(board_after, to_sq)
        enemy_color == ~moved_piece.color
        ray_directions == RayDirections(moved_piece.piece_type)
    IN  /\ moved_piece.piece_type # 0
        /\ moved_piece.piece_type \in Sliders
        /\ \E i \in 1..Len(ray_directions) :
               LET pieces_on_ray ==
                       ScanRay(board_after, to_sq, ray_directions[i][1],
                               ray_directions[i][2], enemy_color)
               IN  /\ Len(pieces_on_ray) >= 2
                   /\ PieceValue(pieces_on_ray[1][2]) > PieceValue(pieces_on_ray[2][2])

\* Mutant: the pawns in front of the king are not looked at.
DetectBackRankMateNoPawns(board, move) ==
    LET board_after == Push(board, move)
        mated_color == board_after.turn
        king_sq == King(board_after, mated_color)
        king_rank == SquareRank(king_sq)
    IN  /\ IsCheckmate(board_after)
        /\ king_sq # NoSquare
        /\ king_rank = BackRank(mated_color)
        /\ \E sq \in Checkers(board_after) : SquareRank(sq) = king_rank

\* _detect_back_rank_mate
DetectBackRankMate(board, move) ==
    LET board_after == Push(board, move)
        mated_color == board_after.turn
        king_sq == King(board_after, mated_color)
        king_rank == SquareRank(king_sq)
        checker_on_back_rank ==
            \E sq \in Checkers(board_after) : SquareRank(sq) = king_rank
        escape_rank == IF mated_color = WHITE THEN 1 ELSE 6
        king_file == SquareFile(king_sq)
        pawn_blocking ==
            \E f \in Max(0, king_file - 1)..(IF king_file + 2 < 8
                                             THEN king_file + 2 ELSE 8) - 1 :
                PieceAt(board_after, Square(f, escape_rank))
                    = Piece(PAWN, mated_color)
    IN  /\ IsCheckmate(board_after)
        /\ king_sq # NoSquare
        /\ ~(mated_color = WHITE /\ king_rank # 0)
        /\ ~(mated_color = BLACK /\ king_rank # 7)
        /\ checker_on_back_rank
        /\ pawn_blocking

\* _detect_discovered_attack
DetectDiscoveredAttack(board, move) ==
    LET from_sq == move.from_square
        to_sq == move.to_square
        moving_piece == PieceAt(board, from_sq)
        attacker_color == moving_piece.color
        enemy_color == ~attacker_color
        board_after == Push(board, move)
    IN  /\ moving_piece.piece_type # 0
        /\ \E sq \in SQUARES :
               LET piece == PieceAt(board_after, sq)
                   new_attacks == Attacks(board_after, sq) \ Attacks(board, sq)
               IN  /\ piece.piece_type # 0
                   /\ piece.color = attacker_color
                   /\ sq # to_sq
                   /\ piece.piece_type \in Sliders
                   /\ \E attacked_sq \in new_attacks :
                          Valuable(board_after, attacked_sq, enemy_color)

\* _detect_double_check
DetectDoubleCheck(board, move) ==
    LET board_after == Push(board, move)
    IN  IsCheck(board_after) /\ Cardinality(Checkers(board_after)) >= 2

\* Mutant: only a promotion to a queen counts.
DetectPromotionQueenOnly(board, move) == move.promotion = QUEEN

\* _detect_promotion
DetectPromotion(board, move) == move.promotion # 0

\* _detect_checkmate
DetectCheckmate(board, move) == IsCheckmate(Push(board, move))

\* Mutant: a back-rank mate is given both labels.
MateLabelBoth(board, move) ==
    IF DetectCheckmate(board, move)
    THEN IF DetectBackRankMate(board, move)
         THEN <<"back_rank_mate", "checkmate">>
         ELSE <<"checkmate">>
    ELSE <<>>

\* The first branch of detect_all_motifs: the mate label, if any.
MateLabel(board, move) ==
    IF DetectCheckmate(board, move)
    THEN IF DetectBackRankMate(board, move) THEN <<"back_rank_mate">>
         ELSE <<"checkmate">>
    ELSE <<>>

Label(holds, name) == IF holds THEN <<name>> ELSE <<>>

\* Mutant: the fork is tested before the mate.
DetectAllMotifsForkFirst(board, move) ==
    Label(DetectFork(board, move), "fork")
        \o MateLabel(board, move)
        \o Label(DetectDoubleCheck(board, move), "double_check")
        \o Label(DetectDiscoveredAttack(board, move), "discovered_attack")
        \o Label(DetectPin(board, move), "pin")
        \o Label(DetectSkewer(board, move), "skewer")
        \o Label(DetectPromotion(board, move), "promotion")

\* detect_all_motifs
DetectAllMotifs(board, move) ==
    MateLabel(board, move)
        \o Label(DetectDoubleCheck(board, move), "double_check")
        \o Label(DetectDiscoveredAttack(board, move), "discovered_attack")
        \o Label(DetectFork(board, move), "fork")
        \o Label(DetectPin(board, move), "pin")
        \o Label(DetectSkewer(board, move), "skewer")
        \o Label(DetectPromotion(board, move), "promotion")

\* Mutant: the last motif is returned.
PrimaryOfLast(motifs) == IF motifs # <<>> THEN motifs[Len(motifs)] ELSE "None"

\* detect_motif: the first motif, or "None".
PrimaryOf(motifs) == IF motifs # <<>> THEN motifs[1] ELSE "None"
DetectMotif(board, move) == PrimaryOf(DetectAllMotifs(board, move))

----------------------------------------------------------------------------
(* The motif specification: detect_all_motifs, then detect_motif, on a      *)
(* position and one of its legal moves                                      *)

PieceTypeOf(letter) ==
    CASE letter \in {"P", "p"} -> PAWN
      [] letter \in {"N", "n"} -> KNIGHT
      [] letter \in {"B", "b"} -> BISHOP
      [] letter \in {"R", "r"} -> ROOK
      [] letter \in {"Q", "q"} -> QUEEN
      [] letter \in {"K", "k"} -> KING
      [] OTHER -> 0

\* chess.Board(fen): the rows are the ranks 8 to 1, upper case is White.
FromRows(rows, turn, castling_rights) ==
    [pieces |->
         [sq \in SQUARES |->
             LET letter == rows[8 - SquareRank(sq)][SquareFile(sq) + 1]
             IN  IF letter = "." THEN None
                 ELSE Piece(PieceTypeOf(letter),
                            letter \in {"P", "N", "B", "R", "Q", "K"})],
     turn |-> turn,
     ep_square |-> NoSquare,
     castling_rights |-> castling_rights]

\* The positions the detector is called on: those of tests/test_motif_detector.py,
\* a back-rank mate of the white king, two mates of a king off its back rank
\* (one along the king's rank behind its own pawns), a promotion that mates, and a knight move that gives double check.
Catalog ==
    [
      Starting |->
        \* chess.STARTING_FEN: rnbqkbnr/pppppppp/8/8/8/8/PPPPPPPP/RNBQKBNR w KQkq
        FromRows(<< <<"r", "n", "b", "q", "k", "b", "n", "r">>,
                    <<"p", "p", "p", "p", "p", "p", "p", "p">>,
                    <<".", ".", ".", ".", ".", ".", ".", ".">>,
                    <<".", ".", ".", ".", ".", ".", ".", ".">>,
                    <<".", ".", ".", ".", ".", ".", ".", ".">>,
                    <<".", ".", ".", ".", ".", ".", ".", ".">>,
                    <<"P", "P", "P", "P", "P", "P", "P", "P">>,
                    <<"R", "N", "B", "Q", "K", "B", "N", "R">> >>,
                 WHITE, {Square(7, 0), Square(0, 0), Square(7, 7), Square(0, 7)}),
      SeventhRank |->
        \* a mate on the seventh rank behind the king's own pawns:
        \* 6R1/k7/pp6/8/8/8/8/4K2R w -
        FromRows(<< <<".", ".", ".", ".", ".", ".", "R", ".">>,
                    <<"k", ".", ".", ".", ".", ".", ".", ".">>,
                    <<"p", "p", ".", ".", ".", ".", ".", ".">>,
                    <<".", ".", ".", ".", ".", ".", ".", ".">>,
                    <<".", ".", ".", ".", ".", ".", ".", ".">>,
                    <<".", ".", ".", ".", ".", ".", ".", ".">>,
                    <<".", ".", ".", ".", ".", ".", ".", ".">>,
                    <<".", ".", ".", ".", "K", ".", ".", "R">> >>,
                 WHITE, {}),
      StalePin |->
        \* a knight pinned by a rook, and a bishop that can step onto the line of the pin:
        \* 4k3/4n3/8/8/8/8/3BR3/6K1 w -
        FromRows(<< <<".", ".", ".", ".", "k", ".", ".", ".">>,
                    <<".", ".", ".", ".", "n", ".", ".", ".">>,
                    <<".", ".", ".", ".", ".", ".", ".", ".">>,
                    <<".", ".", ".", ".", ".", ".", ".", ".">>,
                    <<".", ".", ".", ".", ".", ".", ".", ".">>,
                    <<".", ".", ".", ".", ".", ".", ".", ".">>,
                    <<".", ".", ".", "B", "R", ".", ".", ".">>,
                    <<".", ".", ".", ".", ".", ".", "K", ".">> >>,
                 WHITE, {}),
      CastleOntoFile |->
        \* castling brings the rook to a file with an enemy knight on it:
        \* 7k/8/8/5n2/8/8/8/4K2R w K
        FromRows(<< <<".", ".", ".", ".", ".", ".", ".", "k">>,
                    <<".", ".", ".", ".", ".", ".", ".", ".">>,
                    <<".", ".", ".", ".", ".", ".", ".", ".">>,
                    <<".", ".", ".", ".", ".", "n", ".", ".">>,
                    <<".", ".", ".", ".", ".", ".", ".", ".">>,
                    <<".", ".", ".", ".", ".", ".", ".", ".">>,
                    <<".", ".", ".", ".", ".", ".", ".", ".">>,
                    <<".", ".", ".", ".", "K", ".", ".", "R">> >>,
                 WHITE, {Square(7, 0)}),
      EnPassantOpens |->
        \* an en-passant capture removes the pawn that blocked a bishop's diagonal:
        \* 7k/8/4n3/3pP3/8/8/B7/6K1 w - d6
        [FromRows(<< <<".", ".", ".", ".", ".", ".", ".", "k">>,
                    <<".", ".", ".", ".", ".", ".", ".", ".">>,
                    <<".", ".", ".", ".", "n", ".", ".", ".">>,
                    <<".", ".", ".", "p", "P", ".", ".", ".">>,
                    <<".", ".", ".", ".", ".", ".", ".", ".">>,
                    <<".", ".", ".", ".", ".", ".", ".", ".">>,
                    <<"B", ".", ".", ".", ".", ".", ".", ".">>,
                    <<".", ".", ".", ".", ".", ".", "K", ".">> >>,
                 WHITE, {})
            EXCEPT !.ep_square = Square(3, 5)],
      BlockedSkewer |->
        \* a queen and a rook on one file with a white pawn between them:
        \* 7k/r7/8/P7/q7/8/8/1R4K1 w -
        FromRows(<< <<".", ".", ".", ".", ".", ".", ".", "k">>,
                    <<"r", ".", ".", ".", ".", ".", ".", ".">>,
                    <<".", ".", ".", ".", ".", ".", ".", ".">>,
                    <<"P", ".", ".", ".", ".", ".", ".", ".">>,
                    <<"q", ".", ".", ".", ".", ".", ".", ".">>,
                    <<".", ".", ".", ".", ".", ".", ".", ".">>,
                    <<".", ".", ".", ".", ".", ".", ".", ".">>,
                    <<".", "R", ".", ".", ".", ".", "K", ".">> >>,
                 WHITE, {}),
      KnightFork |->
        \* test_knight_fork_king_rook: r3k3/8/8/3N4/8/8/8/4K3 w q
        FromRows(<< <<"r", ".", ".", ".", "k", ".", ".", ".">>,
                    <<".", ".", ".", ".", ".", ".", ".", ".">>,
                    <<".", ".", ".", ".", ".", ".", ".", ".">>,
                    <<".", ".", ".", "N", ".", ".", ".", ".">>,
                    <<".", ".", ".", ".", ".", ".", ".", ".">>,
                    <<".", ".", ".", ".", ".", ".", ".", ".">>,
                    <<".", ".", ".", ".", ".", ".", ".", ".">>,
                    <<".", ".", ".", ".", "K", ".", ".", ".">> >>,
                 WHITE, {Square(0, 7)}),
      KnightForkQueenRook |->
        \* test_knight_fork_queen_rook: 4k3/8/3q1r2/8/8/2N5/8/4K3 w -
        FromRows(<< <<".", ".", ".", ".", "k", ".", ".", ".">>,
                    <<".", ".", ".", ".", ".", ".", ".", ".">>,
                    <<".", ".", ".", "q", ".", "r", ".", ".">>,
                    <<".", ".", ".", ".", ".", ".", ".", ".">>,
                    <<".", ".", ".", ".", ".", ".", ".", ".">>,
                    <<".", ".", "N", ".", ".", ".", ".", ".">>,
                    <<".", ".", ".", ".", ".", ".", ".", ".">>,
                    <<".", ".", ".", ".", "K", ".", ".", ".">> >>,
                 WHITE, {}),
      QueenFork |->
        \* test_queen_fork: r3k3/8/8/8/8/8/8/Q3K3 w q
        FromRows(<< <<"r", ".", ".", ".", "k", ".", ".", ".">>,
                    <<".", ".", ".", ".", ".", ".", ".", ".">>,
                    <<".", ".", ".", ".", ".", ".", ".", ".">>,
                    <<".", ".", ".", ".", ".", ".", ".", ".">>,
                    <<".", ".", ".", ".", ".", ".", ".", ".">>,
                    <<".", ".", ".", ".", ".", ".", ".", ".">>,
                    <<".", ".", ".", ".", ".", ".", ".", ".">>,
                    <<"Q", ".", ".", ".", "K", ".", ".", ".">> >>,
                 WHITE, {Square(0, 7)}),
      BishopPin |->
        \* test_bishop_pins_knight_to_king: r1bqk2r/ppp2ppp/2n2n2/4p3/4P3/5N2/PPPP1PPP/RNBQKB1R w KQkq
        FromRows(<< <<"r", ".", "b", "q", "k", ".", ".", "r">>,
                    <<"p", "p", "p", ".", ".", "p", "p", "p">>,
                    <<".", ".", "n", ".", ".", "n", ".", ".">>,
                    <<".", ".", ".", ".", "p", ".", ".", ".">>,
                    <<".", ".", ".", ".", "P", ".", ".", ".">>,
                    <<".", ".", ".", ".", ".", "N", ".", ".">>,
                    <<"P", "P", "P", "P", ".", "P", "P", "P">>,
                    <<"R", "N", "B", "Q", "K", "B", ".", "R">> >>,
                 WHITE, {Square(7, 0), Square(0, 0), Square(7, 7), Square(0, 7)}),
      RookPin |->
        \* test_rook_pins_piece_to_king: 4k3/8/8/4b3/8/8/8/R5K1 w -
        FromRows(<< <<".", ".", ".", ".", "k", ".", ".", ".">>,
                    <<".", ".", ".", ".", ".", ".", ".", ".">>,
                    <<".", ".", ".", ".", ".", ".", ".", ".">>,
                    <<".", ".", ".", ".", "b", ".", ".", ".">>,
                    <<".", ".", ".", ".", ".", ".", ".", ".">>,
                    <<".", ".", ".", ".", ".", ".", ".", ".">>,
                    <<".", ".", ".", ".", ".", ".", ".", ".">>,
                    <<"R", ".", ".", ".", ".", ".", "K", ".">> >>,
                 WHITE, {}),
      RookSkewer |->
        \* test_rook_skewer_king_behind_queen: 4q3/8/8/4k3/8/8/8/R6K w -
        FromRows(<< <<".", ".", ".", ".", "q", ".", ".", ".">>,
                    <<".", ".", ".", ".", ".", ".", ".", ".">>,
                    <<".", ".", ".", ".", ".", ".", ".", ".">>,
                    <<".", ".", ".", ".", "k", ".", ".", ".">>,
                    <<".", ".", ".", ".", ".", ".", ".", ".">>,
                    <<".", ".", ".", ".", ".", ".", ".", ".">>,
                    <<".", ".", ".", ".", ".", ".", ".", ".">>,
                    <<"R", ".", ".", ".", ".", ".", ".", "K">> >>,
                 WHITE, {}),
      BishopSkewer |->
        \* test_bishop_skewer: 6r1/5q2/8/8/8/1B6/8/K6k w -
        FromRows(<< <<".", ".", ".", ".", ".", ".", "r", ".">>,
                    <<".", ".", ".", ".", ".", "q", ".", ".">>,
                    <<".", ".", ".", ".", ".", ".", ".", ".">>,
                    <<".", ".", ".", ".", ".", ".", ".", ".">>,
                    <<".", ".", ".", ".", ".", ".", ".", ".">>,
                    <<".", "B", ".", ".", ".", ".", ".", ".">>,
                    <<".", ".", ".", ".", ".", ".", ".", ".">>,
                    <<"K", ".", ".", ".", ".", ".", ".", "k">> >>,
                 WHITE, {}),
      BackRank |->
        \* test_back_rank_mate_rook: 6k1/5ppp/8/8/8/8/8/4R1K1 w -
        FromRows(<< <<".", ".", ".", ".", ".", ".", "k", ".">>,
                    <<".", ".", ".", ".", ".", "p", "p", "p">>,
                    <<".", ".", ".", ".", ".", ".", ".", ".">>,
                    <<".", ".", ".", ".", ".", ".", ".", ".">>,
                    <<".", ".", ".", ".", ".", ".", ".", ".">>,
                    <<".", ".", ".", ".", ".", ".", ".", ".">>,
                    <<".", ".", ".", ".", ".", ".", ".", ".">>,
                    <<".", ".", ".", ".", "R", ".", "K", ".">> >>,
                 WHITE, {}),
      NoPawnWall |->
        \* test_not_back_rank_if_no_pawn_wall: 6k1/1R6/8/8/8/8/8/R5K1 w -
        FromRows(<< <<".", ".", ".", ".", ".", ".", "k", ".">>,
                    <<".", "R", ".", ".", ".", ".", ".", ".">>,
                    <<".", ".", ".", ".", ".", ".", ".", ".">>,
                    <<".", ".", ".", ".", ".", ".", ".", ".">>,
                    <<".", ".", ".", ".", ".", ".", ".", ".">>,
                    <<".", ".", ".", ".", ".", ".", ".", ".">>,
                    <<".", ".", ".", ".", ".", ".", ".", ".">>,
                    <<"R", ".", ".", ".", ".", ".", "K", ".">> >>,
                 WHITE, {}),
      Discovered |->
        \* test_discovered_attack_by_bishop: 4k3/6q1/8/8/3N4/8/1B6/4K3 w -
        FromRows(<< <<".", ".", ".", ".", "k", ".", ".", ".">>,
                    <<".", ".", ".", ".", ".", ".", "q", ".">>,
                    <<".", ".", ".", ".", ".", ".", ".", ".">>,
                    <<".", ".", ".", ".", ".", ".", ".", ".">>,
                    <<".", ".", ".", "N", ".", ".", ".", ".">>,
                    <<".", ".", ".", ".", ".", ".", ".", ".">>,
                    <<".", "B", ".", ".", ".", ".", ".", ".">>,
                    <<".", ".", ".", ".", "K", ".", ".", ".">> >>,
                 WHITE, {}),
      BlockedPawn |->
        \* test_double_check: 3k4/3P4/8/5B2/8/8/8/3K4 w -
        FromRows(<< <<".", ".", ".", "k", ".", ".", ".", ".">>,
                    <<".", ".", ".", "P", ".", ".", ".", ".">>,
                    <<".", ".", ".", ".", ".", ".", ".", ".">>,
                    <<".", ".", ".", ".", ".", "B", ".", ".">>,
                    <<".", ".", ".", ".", ".", ".", ".", ".">>,
                    <<".", ".", ".", ".", ".", ".", ".", ".">>,
                    <<".", ".", ".", ".", ".", ".", ".", ".">>,
                    <<".", ".", ".", "K", ".", ".", ".", ".">> >>,
                 WHITE, {}),
      Promotion |->
        \* test_pawn_promotion: 4k3/P7/8/8/8/8/8/4K3 w -
        FromRows(<< <<".", ".", ".", ".", "k", ".", ".", ".">>,
                    <<"P", ".", ".", ".", ".", ".", ".", ".">>,
                    <<".", ".", ".", ".", ".", ".", ".", ".">>,
                    <<".", ".", ".", ".", ".", ".", ".", ".">>,
                    <<".", ".", ".", ".", ".", ".", ".", ".">>,
                    <<".", ".", ".", ".", ".", ".", ".", ".">>,
                    <<".", ".", ".", ".", ".", ".", ".", ".">>,
                    <<".", ".", ".", ".", "K", ".", ".", ".">> >>,
                 WHITE, {}),
      Scholars |->
        \* test_checkmate_detected: r1bqkbnr/pppp1ppp/2n5/4p2Q/2B1P3/8/PPPP1PPP/RNB1K1NR w KQkq
        FromRows(<< <<"r", ".", "b", "q", "k", "b", "n", "r">>,
                    <<"p", "p", "p", "p", ".", "p", "p", "p">>,
                    <<".", ".", "n", ".", ".", ".", ".", ".">>,
                    <<".", ".", ".", ".", "p", ".", ".", "Q">>,
                    <<".", ".", "B", ".", "P", ".", ".", ".">>,
                    <<".", ".", ".", ".", ".", ".", ".", ".">>,
                    <<"P", "P", "P", "P", ".", "P", "P", "P">>,
                    <<"R", "N", "B", ".", "K", ".", "N", "R">> >>,
                 WHITE, {Square(7, 0), Square(0, 0), Square(7, 7), Square(0, 7)}),
      RookCheck |->
        \* test_no_checkmate_on_normal_check: 4k3/8/8/8/8/8/8/R3K3 w -
        FromRows(<< <<".", ".", ".", ".", "k", ".", ".", ".">>,
                    <<".", ".", ".", ".", ".", ".", ".", ".">>,
                    <<".", ".", ".", ".", ".", ".", ".", ".">>,
                    <<".", ".", ".", ".", ".", ".", ".", ".">>,
                    <<".", ".", ".", ".", ".", ".", ".", ".">>,
                    <<".", ".", ".", ".", ".", ".", ".", ".">>,
                    <<".", ".", ".", ".", ".", ".", ".", ".">>,
                    <<"R", ".", ".", ".", "K", ".", ".", ".">> >>,
                 WHITE, {}),
      Castling |->
        \* test_castling: r1bqk2r/pppp1ppp/2n2n2/2b1p3/2B1P3/5N2/PPPP1PPP/RNBQK2R w KQkq
        FromRows(<< <<"r", ".", "b", "q", "k", ".", ".", "r">>,
                    <<"p", "p", "p", "p", ".", "p", "p", "p">>,
                    <<".", ".", "n", ".", ".", "n", ".", ".">>,
                    <<".", ".", "b", ".", "p", ".", ".", ".">>,
                    <<".", ".", "B", ".", "P", ".", ".", ".">>,
                    <<".", ".", ".", ".", ".", "N", ".", ".">>,
                    <<"P", "P", "P", "P", ".", "P", "P", "P">>,
                    <<"R", "N", "B", "Q", "K", ".", ".", "R">> >>,
                 WHITE, {Square(7, 0), Square(0, 0), Square(7, 7), Square(0, 7)}),
      BlackBackRank |->
        \* a back-rank mate of the white king: 4r1k1/8/8/8/8/8/5PPP/6K1 b -
        FromRows(<< <<".", ".", ".", ".", "r", ".", "k", ".">>,
                    <<".", ".", ".", ".", ".", ".", ".", ".">>,
                    <<".", ".", ".", ".", ".", ".", ".", ".">>,
                    <<".", ".", ".", ".", ".", ".", ".", ".">>,
                    <<".", ".", ".", ".", ".", ".", ".", ".">>,
                    <<".", ".", ".", ".", ".", ".", ".", ".">>,
                    <<".", ".", ".", ".", ".", "P", "P", "P">>,
                    <<".", ".", ".", ".", ".", ".", "K", ".">> >>,
                 BLACK, {}),
      EdgeMate |->
        \* a mate of a king off its back rank: 8/8/8/8/8/5K1k/8/6R1 w -
        FromRows(<< <<".", ".", ".", ".", ".", ".", ".", ".">>,
                    <<".", ".", ".", ".", ".", ".", ".", ".">>,
                    <<".", ".", ".", ".", ".", ".", ".", ".">>,
                    <<".", ".", ".", ".", ".", ".", ".", ".">>,
                    <<".", ".", ".", ".", ".", ".", ".", ".">>,
                    <<".", ".", ".", ".", ".", "K", ".", "k">>,
                    <<".", ".", ".", ".", ".", ".", ".", ".">>,
                    <<".", ".", ".", ".", ".", ".", "R", ".">> >>,
                 WHITE, {}),
      PromotionMate |->
        \* a promotion that mates on the back rank: 6k1/4Pppp/8/8/8/8/8/6K1 w -
        FromRows(<< <<".", ".", ".", ".", ".", ".", "k", ".">>,
                    <<".", ".", ".", ".", "P", "p", "p", "p">>,
                    <<".", ".", ".", ".", ".", ".", ".", ".">>,
                    <<".", ".", ".", ".", ".", ".", ".", ".">>,
                    <<".", ".", ".", ".", ".", ".", ".", ".">>,
                    <<".", ".", ".", ".", ".", ".", ".", ".">>,
                    <<".", ".", ".", ".", ".", ".", ".", ".">>,
                    <<".", ".", ".", ".", ".", ".", "K", ".">> >>,
                 WHITE, {}),
      DoubleCheck |->
        \* a knight move that uncovers a rook's check and forks: 4k3/3q4/8/8/4N3/8/8/4RK2 w -
        FromRows(<< <<".", ".", ".", ".", "k", ".", ".", ".">>,
                    <<".", ".", ".", "q", ".", ".", ".", ".">>,
                    <<".", ".", ".", ".", ".", ".", ".", ".">>,
                    <<".", ".", ".", ".", ".", ".", ".", ".">>,
                    <<".", ".", ".", ".", "N", ".", ".", ".">>,
                    <<".", ".", ".", ".", ".", ".", ".", ".">>,
                    <<".", ".", ".", ".", ".", ".", ".", ".">>,
                    <<".", ".", ".", ".", "R", "K", ".", ".">> >>,
                 WHITE, {}) ]

Positions == {Catalog[name] : name \in DOMAIN Catalog}

\* Mutant: the move is pushed on the caller's board.
CallerBoardPushed(board, move) == Push(board, move)

\* The caller's board after a detector call: every predicate pushes the move
\* on a copy (board_after = board.copy()), none on the board it was given.
CallerBoard(board, move) == board

\* detect_all_motifs(board, move), the first call; given is the position as
\* the caller passed it, board the caller's object after the call.
DetectAllMotifsCall(board, move) ==
    /\ probe.fn = "none"
    /\ probe' = [fn |-> "detect_all_motifs",
                 board |-> CallerBoard(board, move), given |-> board,
                 move |-> move, motifs |-> DetectAllMotifs(board, move),
                 primary |-> "", again |-> <<>>]
    /\ UNCHANGED <<files, cards, phase, now, issued, scheduled, succeeded,
                   peer, server, last>>

\* detect_motif on the caller's board and the move of the first call.
DetectMotifCall ==
    /\ probe.fn = "detect_all_motifs"
    /\ probe' = [probe EXCEPT !.fn = "detect_motif",
                              !.board = CallerBoard(probe.board, probe.move),
                              !.primary = DetectMotif(probe.board, probe.move)]
    /\ UNCHANGED <<files, cards, phase, now, issued, scheduled, succeeded,
                   peer, server, last>>

\* detect_all_motifs once more on the caller's board and the same move,
\* directly after the first call or after detect_motif.
DetectAllMotifsAgain ==
    /\ probe.fn \in {"detect_all_motifs", "detect_motif"}
    /\ probe' = [probe EXCEPT !.fn = "detect_all_motifs again",
                              !.board = CallerBoard(probe.board, probe.move),
                              !.again = DetectAllMotifs(probe.board, probe.move)]
    /\ UNCHANGED <<files, cards, phase, now, issued, scheduled, succeeded,
                   peer, server, last>>

NextMotif ==
    \/ \E board \in Positions :
           \E move \in LegalMoves(board) : DetectAllMotifsCall(board, move)
    \/ DetectMotifCall
    \/ DetectAllMotifsAgain

SpecMotif == Start(Absent, Absent) /\ [][NextMotif]_vars

----------------------------------------------------------------------------
(* The game server: the game tools of mcp-server/server.py.  A game id is   *)
(* the place of the game in _games, 0 the id of no game.  The text of a     *)
(* move names a piece type, a destination and a promotion, as SAN does.     *)
(* A game keeps board.legal_moves next to its board, so that the moves of a *)
(* position are generated once.  A call records the tool, the id, whether   *)
(* an error dict was returned, how many plies undo_move popped, and pair:   *)
(* for engine_move, that the call before it was a make_move that moved in   *)
(* the same game; for undo_move, that the call before it was such an        *)
(* engine_move; FALSE for the other tools.                                  *)

\* Board.is_game_over(): checkmate, stalemate or insufficient material.  The
\* seventy-five-move rule and fivefold repetition need more plies than a
\* game of this model has: games start with the halfmove clock at 0.
IsGameOver(board, legal_moves) ==
    LET of(color) == {sq \in SQUARES : board.pieces[sq].piece_type # 0
                                         /\ board.pieces[sq].color = color}
        kind(sq) == board.pieces[sq].piece_type
        bishops == {sq \in SQUARES : kind(sq) = BISHOP}
        dark(sq) == (SquareRank(sq) + SquareFile(sq)) % 2 = 0
        insufficient(color) ==
            IF \E sq \in of(color) : kind(sq) \in {PAWN, ROOK, QUEEN} THEN FALSE
            ELSE IF \E sq \in of(color) : kind(sq) = KNIGHT
            THEN /\ Cardinality(of(color)) <= 2
                 /\ \A sq \in of(~color) : kind(sq) \in {KING, QUEEN}
            ELSE IF \E sq \in of(color) : kind(sq) = BISHOP
            THEN /\ \/ \A sq \in bishops : dark(sq)
                    \/ \A sq \in bishops : ~dark(sq)
                 /\ \A sq \in SQUARES : kind(sq) \notin {PAWN, KNIGHT}
            ELSE TRUE
    IN  \/ legal_moves = {}
        \/ insufficient(WHITE) /\ insufficient(BLACK)

\* The position new_game is given as starting_fen: k1K5/P7/8/8/8/8/8/8 w.
\* Black can always take the pawn, which leaves the bare kings and ends the
\* game although moves remain; after Kd7 or Kd8 black can also play on.
GameStarts ==
    { FromRows(<< <<"k", ".", "K", ".", ".", ".", ".", ".">>,
                  <<"P", ".", ".", ".", ".", ".", ".", ".">>,
                  <<".", ".", ".", ".", ".", ".", ".", ".">>,
                  <<".", ".", ".", ".", ".", ".", ".", ".">>,
                  <<".", ".", ".", ".", ".", ".", ".", ".">>,
                  <<".", ".", ".", ".", ".", ".", ".", ".">>,
                  <<".", ".", ".", ".", ".", ".", ".", ".">>,
                  <<".", ".", ".", ".", ".", ".", ".", ".">> >>, WHITE, {}) }

\* Board.parse_san: "--" is the null move; other text names the piece, the
\* destination and the promotion of exactly one legal move, or raises.
ParseSan(board, legal_moves, text) ==
    LET matches == { m \in legal_moves :
                       /\ board.pieces[m.from_square].piece_type = text.piece_type
                       /\ m.to_square = text.to_square
                       /\ m.promotion = text.promotion }
    IN  IF text.kind = "null" THEN [error |-> "", move |-> Move(0, 0, 0)]
        ELSE IF text.kind # "san"
        THEN [error |-> "InvalidMoveError", move |-> Move(0, 0, 0)]
        ELSE IF matches = {}
        THEN [error |-> "IllegalMoveError", move |-> Move(0, 0, 0)]
        ELSE IF Cardinality(matches) > 1
        THEN [error |-> "AmbiguousMoveError", move |-> Move(0, 0, 0)]
        ELSE [error |-> "", move |-> CHOOSE m \in matches : TRUE]

\* new_game(player_color=..., starting_fen=...): a start that is no valid
\* position gives an error; otherwise the game is stored under a new id.
NewGame(player_color, valid, start) ==
    LET games == server.games
        game == [board |-> start, legal_moves |-> LegalMoves(start),
                 move_stack |-> <<>>, stack |-> <<>>,
                 player_color |-> player_color, move_evals |-> <<>>,
                 accuracy |-> [white |-> 0, black |-> 0],
                 synced |-> <<>>, pgn_saved |-> FALSE]
    IN  /\ server' =
               IF ~valid THEN Served(games, "new_game", 0, TRUE, 0, FALSE)
               ELSE Served(Append(games, game), "new_game", Len(games) + 1,
                           FALSE, 0, FALSE)
        /\ UNCHANGED <<files, cards, phase, now, issued, scheduled, succeeded,
                       peer, probe, last>>

\* board.push(chess_move) by a tool, then _auto_save_pgn when the game has
\* ended (the PGN file of the game exists from then on), and _sync_game_json.
Pushed(game, chess_move) ==
    LET board == Push(game.board, chess_move)
        legal_moves == LegalMoves(board)
        moves == Append(game.move_stack, chess_move)
    IN  [game EXCEPT
            !.board = board,
            !.legal_moves = legal_moves,
            !.move_stack = moves,
            !.stack = Append(game.stack, [board |-> game.board,
                                          legal_moves |-> game.legal_moves]),
            !.pgn_saved = game.pgn_saved \/ IsGameOver(board, legal_moves),
            !.synced = moves]

\* Mutant: a game that has ended takes further moves.
MakeMoveOnFinished(id, text) ==
    LET games == server.games
        failed == Served(games, "make_move", id, TRUE, 0, FALSE)
    IN  /\ server' =
               IF id \notin 1..Len(games) THEN failed
               ELSE LET game == games[id]
                        parsed == ParseSan(game.board, game.legal_moves, text)
                    IN  IF parsed.error # "" THEN failed
                        ELSE IF parsed.move \notin game.legal_moves THEN failed
                        ELSE Served([games EXCEPT ![id] =
                                        Pushed(game, parsed.move)],
                                    "make_move", id, FALSE, 0, FALSE)
        /\ UNCHANGED <<files, cards, phase, now, issued, scheduled, succeeded,
                       peer, probe, last>>

\* make_move(game_id, move)
MakeMove(id, text) ==
    LET games == server.games
        failed == Served(games, "make_move", id, TRUE, 0, FALSE)
    IN  /\ server' =
               IF id \notin 1..Len(games) THEN failed
               ELSE IF IsGameOver(games[id].board, games[id].legal_moves)
               THEN failed
               ELSE LET game == games[id]
                        parsed == ParseSan(game.board, game.legal_moves, text)
                    IN  IF parsed.error # "" THEN failed
                        ELSE IF parsed.move \notin game.legal_moves THEN failed
                        ELSE Served([games EXCEPT ![id] =
                                        Pushed(game, parsed.move)],
                                    "make_move", id, FALSE, 0, FALSE)
        /\ UNCHANGED <<files, cards, phase, now, issued, scheduled, succeeded,
                       peer, probe, last>>

\* engine_move(game_id): the engine answers with one of the legal moves.
EngineMove(id) ==
    LET games == server.games
        failed == Served(games, "engine_move", id, TRUE, 0, FALSE)
    IN  /\ IF id \notin 1..Len(games) THEN server' = failed
           ELSE IF IsGameOver(games[id].board, games[id].legal_moves)
           THEN server' = failed
           ELSE \E chess_move \in games[id].legal_moves :
                    server' = Served([games EXCEPT ![id] =
                                         Pushed(games[id], chess_move)],
                                     "engine_move", id, FALSE, 0,
                                     server.call = [op |-> "make_move",
                                                    id |-> id, error |-> FALSE,
                                                    popped |-> 0, pair |-> FALSE])
        /\ UNCHANGED <<files, cards, phase, now, issued, scheduled, succeeded,
                       peer, probe, last>>

\* _recompute_accuracy: per colour, the share of the stored evaluations that
\* lost at most 30 centipawns, round(good / counts * 100, 1), in tenths of a
\* percent; 0.0 where the colour has none.  No share of fewer than 16
\* evaluations lies halfway between two tenths.
Accuracy(move_evals) ==
    LET of(color) == {i \in 1..Len(move_evals) : move_evals[i].color = color}
        counts(color) == Cardinality(of(color))
        good(color) == Cardinality({i \in of(color) : move_evals[i].good})
    IN  [color \in {"white", "black"} |->
            IF counts(color) > 0
            THEN (2000 * good(color) + counts(color)) \div (2 * counts(color))
            ELSE 0]

\* evaluate_move(game_id, move): the evaluation is stored with the ply and
\* the colour to move.  The engine of this model finds that a move which
\* takes a piece loses at most 30 centipawns and that any other move loses
\* more, so that both outcomes of the comparison in _recompute_accuracy occur.
EvaluateMove(id, text) ==
    LET games == server.games
        failed == Served(games, "evaluate_move", id, TRUE, 0, FALSE)
    IN  /\ server' =
               IF id \notin 1..Len(games) THEN failed
               ELSE IF IsGameOver(games[id].board, games[id].legal_moves)
               THEN failed
               ELSE LET game == games[id]
                        parsed == ParseSan(game.board, game.legal_moves, text)
                        taken == game.board.pieces[parsed.move.to_square]
                        evals == Append(game.move_evals,
                                        [ply |-> Len(game.move_stack),
                                         color |-> IF game.board.turn = WHITE
                                                   THEN "white" ELSE "black",
                                         good |-> taken.piece_type # 0])
                    IN  IF parsed.error # "" THEN failed
                        ELSE Served([games EXCEPT ![id] =
                                        [game EXCEPT
                                            !.move_evals = evals,
                                            !.accuracy = Accuracy(evals),
                                            !.synced = game.move_stack]],
                                    "evaluate_move", id, FALSE, 0, FALSE)
        /\ UNCHANGED <<files, cards, phase, now, issued, scheduled, succeeded,
                       peer, probe, last>>

\* The two board.pop() of undo_move: the last ply, and one more when plies
\* remain and the side to move is not the player's.
UndoPlies(game) ==
    LET popped(g) ==
            [g EXCEPT !.board = g.stack[Len(g.stack)].board,
                      !.legal_moves = g.stack[Len(g.stack)].legal_moves,
                      !.move_stack = SubSeq(g.move_stack, 1, Len(g.stack) - 1),
                      !.stack = SubSeq(g.stack, 1, Len(g.stack) - 1)]
        once == popped(game)
        player_turn == IF game.player_color = "white" THEN WHITE ELSE BLACK
    IN  IF once.move_stack # <<>> /\ once.board.turn # player_turn
        THEN popped(once)
        ELSE once

\* undo_move(game_id)
UndoMove(id) ==
    LET games == server.games
        failed == Served(games, "undo_move", id, TRUE, 0, FALSE)
    IN  /\ server' =
               IF id \notin 1..Len(games) THEN failed
               ELSE IF games[id].move_stack = <<>> THEN failed
               ELSE LET game == games[id]
                        n == Len(game.move_stack)
                        undone == UndoPlies(game)
                        current_ply == Len(undone.move_stack)
                        evals == SelectSeq(game.move_evals,
                                           LAMBDA ev : ev.ply < current_ply)
                    IN  Served([games EXCEPT ![id] =
                                   [undone EXCEPT !.move_evals = evals,
                                                  !.accuracy = Accuracy(evals),
                                                  !.synced = undone.move_stack]],
                               "undo_move", id, FALSE, n - current_ply,
                               server.call = [op |-> "engine_move",
                                              id |-> id, error |-> FALSE,
                                              popped |-> 0, pair |-> TRUE])
        /\ UNCHANGED <<files, cards, phase, now, issued, scheduled, succeeded,
                       peer, probe, last>>

\* The tools are called in any order on one game, with its id and the id of
\* no game, and with the texts of the legal moves, of a move that is not
\* legal, the null move and text that is no move.  A call that would push a
\* ply or store an evaluation beyond the bounds is left out.
NextServer ==
    LET games == server.games
        plies == SumSeq([i \in 1..Len(games) |-> Len(games[i].move_stack)])
        evals == SumSeq([i \in 1..Len(games) |-> Len(games[i].move_evals)])
        refused(id) ==
            IF id = 0 THEN TRUE
            ELSE IsGameOver(games[id].board, games[id].legal_moves)
        texts(id) ==
            (IF id = 0 THEN {}
             ELSE { [kind |-> "san",
                     piece_type |-> games[id].board.pieces[m.from_square].piece_type,
                     to_square |-> m.to_square, promotion |-> m.promotion] :
                        m \in games[id].legal_moves })
                \cup { [kind |-> k, piece_type |-> QUEEN,
                        to_square |-> Square(0, 0), promotion |-> 0] :
                          k \in {"san", "null", "garbage"} }
    IN  \/ \E player_color \in {"white", "black"}, start \in GameStarts :
               games = <<>> /\ NewGame(player_color, TRUE, start)
        \/ \E start \in GameStarts : NewGame("white", FALSE, start)
        \/ \E id \in 0..Len(games) : \E text \in texts(id) :
               (IF plies < MaxPlies THEN TRUE ELSE refused(id))
               /\ MakeMove(id, text)
        \/ \E id \in 0..Len(games) :
               (IF plies < MaxPlies THEN TRUE ELSE refused(id))
               /\ EngineMove(id)
        \/ \E id \in 0..Len(games) : \E text \in texts(id) :
               (IF evals < MaxEvals THEN TRUE ELSE refused(id))
               /\ EvaluateMove(id, text)
        \/ \E id \in 0..Len(games) : UndoMove(id)

SpecServer == Start(Absent, Absent) /\ [][NextServer]_vars

----------------------------------------------------------------------------
(* Properties *)

\* The latest call was a review_card that succeeded.
Reviewed == last.op = "review_card" /\ last.outcome = "ok"

\* The reviewed card before the review, and the card review_card returned.
OldCard == CHOOSE c \in {last.cardsBefore[i] : i \in 1..Len(last.cardsBefore)} :
               c.id = last.id
ReturnedCard == last.ret[1]

AllAre(h, q) == \A i \in 1..Len(h) : h[i] = q

\* iv is n / EaseScale rounded to a nearest integer (n is interval x ease).
IsRounded(iv, n) == 2 * Abs(EaseScale * iv - n) <= EaseScale

\* C1: a passing review (quality >= 3) of a card with r repetitions gives
\* interval element r (0-based) of [4, 24, 72, 168, 336, 720] when r < 6 and
\* round(old interval x new ease_factor) otherwise, and r + 1 repetitions; so
\* k quality-4 reviews of a fresh card give 4, 24, 72, 168, 336, 720 for
\* k = 1..6 and round(720 x ease_factor) for k = 7.
C1_PassingReviewInterval ==
    (Reviewed /\ last.quality.val >= 3) =>
        LET r == OldCard.repetitions
            new == ReturnedCard
            k == Len(new.quality_history)
        IN  /\ new.repetitions = r + 1
            /\ r < 6 => new.interval_hours = <<4, 24, 72, 168, 336, 720>>[r + 1]
            /\ r >= 6 => IsRounded(new.interval_hours,
                                   OldCard.interval_hours * new.ease_factor)
            /\ (AllAre(new.quality_history, 4) /\ k <= 6) =>
                   new.interval_hours = <<4, 24, 72, 168, 336, 720>>[k]
            /\ (AllAre(new.quality_history, 4) /\ k = 7) =>
                   IsRounded(new.interval_hours, 720 * new.ease_factor)

\* The seventh quality-4 review of a fresh card: 720 x 2.5 hours.
C1_Witness ==
    /\ Reviewed
    /\ ReturnedCard.quality_history = <<4, 4, 4, 4, 4, 4, 4>>
    /\ OldCard.repetitions = 6
    /\ ReturnedCard.interval_hours = 1800

\* C2, as the specification states it: k quality-4 reviews of a fresh card
\* give 24, 72, 168, 336, 720 for k = 1..5, and the 6th gives
\* round(720 x ease_factor).
C2_AsStated ==
    \A i \in 1..Len(cards) :
        LET c == cards[i]
            k == Len(c.quality_history)
        IN  AllAre(c.quality_history, 4) =>
                /\ k \in 1..5 => c.interval_hours = <<24, 72, 168, 336, 720>>[k]
                /\ k = 6 => IsRounded(c.interval_hours, 720 * c.ease_factor)

\* C2, amended: k quality-4 reviews of a fresh card give 4, 24, 72, 168, 336
\* for k = 1..5, the 6th gives 720 and the 7th round(720 x ease_factor).
C2_LadderFromFour ==
    \A i \in 1..Len(cards) :
        LET c == cards[i]
            k == Len(c.quality_history)
        IN  AllAre(c.quality_history, 4) =>
                /\ k \in 1..5 => c.interval_hours = <<4, 24, 72, 168, 336>>[k]
                /\ k = 6 => c.interval_hours = 720
                /\ k = 7 => IsRounded(c.interval_hours, 720 * c.ease_factor)

\* Five quality-4 reviews of a fresh card.
C2_Witness ==
    /\ Reviewed
    /\ ReturnedCard.quality_history = <<4, 4, 4, 4, 4>>
    /\ ReturnedCard.interval_hours = 336
    /\ cards[1] = ReturnedCard

\* C3: a failing review (quality < 3) sets interval_hours to 4 and
\* repetitions to 0, whatever the card was before.
C3_FailingReviewResets ==
    (Reviewed /\ last.quality.val < 3) =>
        /\ ReturnedCard.interval_hours = 4
        /\ ReturnedCard.repetitions = 0

\* A mature card fails.
C3_Witness ==
    /\ Reviewed
    /\ last.quality.val < 3
    /\ OldCard.repetitions >= 6
    /\ OldCard.interval_hours >= 720
    /\ ReturnedCard.repetitions = 0

\* C4: every review, passing or failing, sets ease_factor to
\* max(1.3, old + d(q)), d = -0.80, -0.54, -0.32, -0.14, 0.00, +0.10 for
\* q = 0..5.
C4_EaseUpdate ==
    Reviewed =>
        LET q == last.quality.val
            d == <<0 - 8000, 0 - 5400, 0 - 3200, 0 - 1400, 0, 1000>>[q + 1]
        IN  /\ ReturnedCard.ease_factor = Max(13000, OldCard.ease_factor + d)
            /\ d = 1000 - (5 - q) * (800 + (5 - q) * 200)

\* A failing review lowers the ease factor without reaching the floor.
C4_Witness ==
    /\ Reviewed
    /\ last.quality.val = 1
    /\ OldCard.ease_factor = 26000
    /\ ReturnedCard.ease_factor = 20600

\* C5: every card has ease_factor >= 1.3.
C5_EaseFloor == \A i \in 1..Len(cards) : cards[i].ease_factor >= 13000

\* A review whose update would go below the floor.
C5_Witness ==
    /\ Reviewed
    /\ OldCard.ease_factor + EaseDelta(last.quality.val) < 13000
    /\ ReturnedCard.ease_factor = 13000

\* C6: after n >= 15 quality-0 reviews of a fresh card its ease_factor is
\* exactly 1.3, and it is never below 1.3 on the way.
C6_LapsesReachFloor ==
    \A i \in 1..Len(cards) :
        LET c == cards[i]
        IN  /\ c.ease_factor >= 13000
            /\ (AllAre(c.quality_history, 0) /\ Len(c.quality_history) >= 15)
                   => c.ease_factor = 13000

\* Fifteen quality-0 reviews of one card.
C6_Witness ==
    /\ Reviewed
    /\ last.quality.val = 0
    /\ Len(ReturnedCard.quality_history) = 15
    /\ AllAre(ReturnedCard.quality_history, 0)

\* The cards of a list, and the review time review code reads from a card.
CardSet(cs) == {cs[i] : i \in 1..Len(cs)}
ReviewTime(c) == FromIsoFormat(c.next_review)

\* C7: review_card with a quality that is no integer in 0..5 fails with
\* InvalidArgument, with an unknown id it fails with NotFound, and a failed
\* call leaves the card collection and the persisted store as they were.
C7_FailedReviewChangesNothing ==
    last.op = "review_card" =>
        LET q == last.quality
            inRange == q.int /\ q.val \in 0..5
            known == \E c \in CardSet(last.cardsBefore) : c.id = last.id
        IN  /\ ~inRange => last.outcome = "InvalidArgument"
            /\ (inRange /\ ~known) => last.outcome = "NotFound"
            /\ last.outcome # "ok" =>
                   /\ cards = last.cardsBefore
                   /\ files = last.filesBefore
                   /\ last.ret = <<>>

\* A reviewed card is reviewed again with quality -1.
C7_Witness ==
    /\ last.op = "review_card"
    /\ last.outcome = "InvalidArgument"
    /\ last.quality.val < 0
    /\ \E c \in CardSet(cards) : c.id = last.id /\ c.quality_history # <<>>

\* C8: add_card appends exactly one card with a fresh id, interval 4,
\* ease 2.5, repetitions 0, an empty history, next_review = creation time
\* + 4 hours and the given content, persists the collection, and leaves the
\* earlier cards unchanged.
C8_AddCard ==
    last.op = "add_card" =>
        LET card == last.ret[1]
            c == last.content
        IN  /\ cards = Append(last.cardsBefore, card)
            /\ \A old \in CardSet(last.cardsBefore) : old.id # card.id
            /\ card.interval_hours = 4
            /\ card.ease_factor = 25000
            /\ card.repetitions = 0
            /\ card.quality_history = <<>>
            /\ FromIsoFormat(card.created_at) = last.at
            /\ FromIsoFormat(card.next_review) = last.at + 2 * 4
            /\ card.fen = c.fen
            /\ card.player_move = c.player_move
            /\ card.best_move = c.best_move
            /\ card.cp_loss = c.cp_loss
            /\ card.classification = c.classification
            /\ card.motif = c.motif
            /\ card.explanation = c.explanation
            /\ files[CardsPath].exists
            /\ JsonLoads(files[CardsPath].text).ok
            /\ JsonLoads(files[CardsPath].text).data = cards

\* A card is added, inside an hour, to a collection that holds a card.
C8_Witness ==
    /\ last.op = "add_card"
    /\ Len(last.cardsBefore) >= 1
    /\ last.at = 1
    /\ Len(cards) = Len(last.cardsBefore) + 1

\* C9: get_due_cards returns exactly the cards with next_review <= now, in
\* ascending order of next_review, and changes neither the collection nor
\* the store.
C9_DueCards ==
    last.op = "get_due_cards" =>
        LET due == last.ret
        IN  /\ CardSet(due) = {c \in CardSet(cards) : ReviewTime(c) <= last.at}
            /\ Len(due) = Cardinality(CardSet(due))
            /\ \A i, j \in 1..Len(due) :
                   i < j => ReviewTime(due[i]) <= ReviewTime(due[j])
            /\ cards = last.cardsBefore
            /\ files = last.filesBefore

\* Two cards are due, one of them exactly now, in an order that is not the
\* order of the collection.
C9_Witness ==
    /\ last.op = "get_due_cards"
    /\ Len(last.ret) = 2
    /\ last.ret[1] = cards[2]
    /\ last.ret[2] = cards[1]
    /\ ReviewTime(cards[1]) = last.at
    /\ ReviewTime(cards[2]) < last.at

\* C10: construction on a store file that is no JSON, or JSON but no array,
\* does not raise: the scheduler has no cards, the backup file holds the
\* store's content, and add_card works afterwards; a missing store gives no
\* cards and no backup.
C10_CorruptStoreRecovered ==
    /\ last.op = "construct" =>
           LET store == last.filesBefore[CardsPath]
               malformed == store.exists /\ ~store.text.isDoc
           IN  /\ last.outcome = "ok"
               /\ phase = "open"
               /\ malformed =>
                      /\ cards = <<>>
                      /\ DueCards(cards, now) = <<>>
                      /\ files[BackupPath] = store
                      /\ files[CardsPath] = store
               /\ ~store.exists =>
                      /\ cards = <<>>
                      /\ files = last.filesBefore
    /\ last.op = "add_card" =>
           /\ cards = Append(last.cardsBefore, last.ret[1])
           /\ files[CardsPath] = File(JsonDumps(cards))
           /\ files[BackupPath] = last.filesBefore[BackupPath]

\* A card is added after the recovery from a store that is no JSON.
C10_Witness ==
    /\ last.op = "add_card"
    /\ cards = <<last.ret[1]>>
    /\ files[BackupPath] = File(RawText("{invalid json[[["))
    /\ last.filesBefore[CardsPath] = File(RawText("{invalid json[[["))

\* The fields of a Card record.
CardFields ==
    {"id", "fen", "player_move", "best_move", "cp_loss", "classification",
     "motif", "explanation", "created_at", "next_review", "interval_hours",
     "ease_factor", "repetitions", "quality_history"}

\* The text is the serialisation of a sequence of complete Card records.
WellFormed(text) ==
    text.isDoc /\ \A i \in 1..Len(text.doc) : DOMAIN text.doc[i] = CardFields

\* C11: construction on any store that is not a well-formed sequence of Card
\* records (a JSON array of incomplete records included) backs the file up
\* and starts with no cards, and get_due_cards and add_card called afterwards
\* do not fail.
C11_AsStated ==
    /\ last.op = "construct" =>
           LET store == last.filesBefore[CardsPath]
           IN  (store.exists /\ ~WellFormed(store.text)) =>
                   /\ last.outcome = "ok"
                   /\ cards = <<>>
                   /\ files[BackupPath] = store
    /\ last.op \in {"get_due_cards", "add_card"} => last.outcome = "ok"

\* get_due_cards fails on the record loaded from the store.
C11_Witness ==
    /\ last.op = "get_due_cards"
    /\ last.outcome = "KeyError"
    /\ cards[1] = IncompleteCards[1]
    /\ ~files[BackupPath].exists

SchedulingFields ==
    {"ease_factor", "interval_hours", "repetitions", "next_review",
     "quality_history"}

\* C13: a successful review_card changes only ease_factor, interval_hours,
\* repetitions, next_review and quality_history of the card with the id;
\* every other field of it, every other card, and the number and order of
\* the cards stay as they were; and no operation removes a card.
C13_ReviewFrame ==
    /\ Reviewed =>
           /\ Len(cards) = Len(last.cardsBefore)
           /\ \A i \in 1..Len(cards) :
                  LET old == last.cardsBefore[i]
                  IN  IF old.id = last.id
                      THEN /\ cards[i] = ReturnedCard
                           /\ DOMAIN cards[i] = DOMAIN old
                           /\ \A f \in DOMAIN old \ SchedulingFields :
                                  cards[i][f] = old[f]
                      ELSE cards[i] = old
    /\ Len(cards) >= Len(last.cardsBefore)
    /\ \A i \in 1..Len(last.cardsBefore) : cards[i].id = last.cardsBefore[i].id

\* The first of two cards is reviewed; the second was added inside an hour.
C13_Witness ==
    /\ Reviewed
    /\ Len(cards) = 2
    /\ last.id = cards[1].id
    /\ cards[2].created_at # cards[1].created_at
    /\ cards[1].quality_history # <<>>
    /\ cards[2] = last.cardsBefore[2]

\* C14: a successful review_card(id, q) makes the card's quality_history its
\* previous history followed by q; no other call changes a history; every
\* entry is in 0..5; and the length of a card's history is the number of
\* successful reviews of the card.
C14_HistoryAppendOnly ==
    /\ Reviewed => ReturnedCard.quality_history
                       = OldCard.quality_history \o <<last.quality.val>>
    /\ \A i \in 1..Len(last.cardsBefore) :
           LET old == last.cardsBefore[i].quality_history
               new == cards[i].quality_history
           IN  /\ Len(new) >= Len(old)
               /\ SubSeq(new, 1, Len(old)) = old
               /\ ~(Reviewed /\ cards[i].id = last.id) => new = old
    /\ \A i \in 1..Len(cards) :
           /\ \A k \in 1..Len(cards[i].quality_history) :
                  cards[i].quality_history[k] \in 0..5
           /\ Len(cards[i].quality_history) = succeeded[cards[i].id]

\* A call is rejected after the card's history has grown to three entries,
\* which differ.
C14_Witness ==
    /\ last.op = "review_card"
    /\ last.outcome = "InvalidArgument"
    /\ cards[1].quality_history = <<5, 0, 3>>
    /\ succeeded[1] = 3

\* The sum of the values of a function to the naturals.
RECURSIVE SumOver(_, _)
SumOver(f, D) ==
    IF D = {} THEN 0
    ELSE LET x == CHOOSE y \in D : TRUE IN f[x] + SumOver(f, D \ {x})

\* C15: get_stats returns total = the number of cards, due = the number of
\* cards get_due_cards returns at that time (next_review <= now),
\* by_classification = the count of cards per classification, summing to
\* total, and avg_ease = the mean ease_factor rounded to 3 decimals; without
\* cards it returns zeros and an empty mapping.
C15_Stats ==
    last.op = "get_stats" =>
        LET st == last.ret[1]
            n == Len(cards)
            by == st.by_classification
        IN  /\ last.outcome = "ok"
            /\ st.total = n
            /\ st.due = Len(DueCards(cards, last.at))
            /\ st.due = Cardinality({c \in CardSet(cards) : ReviewTime(c) <= last.at})
            /\ DOMAIN by = {c.classification : c \in CardSet(cards)}
            /\ \A cls \in DOMAIN by :
                   by[cls] = Cardinality({c \in CardSet(cards) : c.classification = cls})
            /\ SumOver(by, DOMAIN by) = n
            /\ n > 0 => 2 * Abs(10 * n * st.avg_ease - EaseSum(cards)) <= 10 * n
            /\ n = 0 => st.avg_ease = 0 /\ st.total = 0 /\ st.due = 0
                             /\ DOMAIN by = {}
            /\ cards = last.cardsBefore
            /\ files = last.filesBefore

\* Three cards of two classifications, one reviewed, two of them due, one
\* exactly now, and a mean (2.5 + 2.5 + 2.6) / 3 that is rounded.
C15_Witness ==
    /\ last.op = "get_stats"
    /\ last.ret[1].total = 3
    /\ last.ret[1].due = 2
    /\ \E c \in CardSet(cards) : ReviewTime(c) = last.at
    /\ Cardinality(DOMAIN last.ret[1].by_classification) = 2
    /\ EaseSum(cards) = 76000
    /\ last.ret[1].avg_ease = 2533

\* The cards the store file holds.
Stored == JsonLoads(files[CardsPath].text).data

\* C16: with several scheduler instances open on one store and their
\* add_card and review_card calls made one at a time, no update is lost:
\* the store holds every card any instance added, and each card in it
\* carries the result of every successful review of it.
C16_AsStated ==
    \A id \in 1..issued :
        \E i \in 1..Len(Stored) :
            /\ Stored[i].id = id
            /\ Len(Stored[i].quality_history) = succeeded[id]
            /\ ReviewTime(Stored[i]) = scheduled[id] + 2 * Stored[i].interval_hours

\* Both instances are open; each has added one card; the store holds the
\* second card alone.
C16_Witness ==
    /\ phase = "open"
    /\ peer.phase = "open"
    /\ issued = 2
    /\ last.op = "add_card"
    /\ Len(peer.cards) = 1 /\ peer.cards[1].id = 1
    /\ Len(Stored) = 1 /\ Stored[1].id = 2

\* The labels of detect_all_motifs in the order of its tests.
FixedOrder ==
    <<"back_rank_mate", "checkmate", "double_check", "discovered_attack",
      "fork", "pin", "skewer", "promotion">>

\* The place of a label in the fixed order.
OrderOf(label) == CHOOSE i \in 1..Len(FixedOrder) : FixedOrder[i] = label

Labels(motifs) == {motifs[i] : i \in 1..Len(motifs)}

\* A detector call has been made.
Probed == probe.fn # "none"

\* e2e4
PawnPush == Move(Square(4, 1), Square(4, 3), 0)

\* C17: for every legal (position, move) pair detect_all_motifs returns the
\* labels of exactly the predicates that hold, each at most once, in the
\* order mate label (back_rank_mate or checkmate), double_check,
\* discovered_attack, fork, pin, skewer, promotion; e2e4 from the starting
\* position yields the empty sequence.
C17_AllMotifsInFixedOrder ==
    Probed =>
        LET m == probe.motifs
            b == probe.board
            mv == probe.move
            has(label) == label \in Labels(m)
        IN  /\ \A i \in 1..Len(m) : m[i] \in Labels(FixedOrder)
            /\ \A i, j \in 1..Len(m) : i < j => OrderOf(m[i]) < OrderOf(m[j])
            /\ (has("back_rank_mate") \/ has("checkmate")) <=> DetectCheckmate(b, mv)
            /\ ~(has("back_rank_mate") /\ has("checkmate"))
            /\ has("double_check") <=> DetectDoubleCheck(b, mv)
            /\ has("discovered_attack") <=> DetectDiscoveredAttack(b, mv)
            /\ has("fork") <=> DetectFork(b, mv)
            /\ has("pin") <=> DetectPin(b, mv)
            /\ has("skewer") <=> DetectSkewer(b, mv)
            /\ has("promotion") <=> DetectPromotion(b, mv)
            /\ (b = Catalog.Starting /\ mv = PawnPush) => m = <<>>

\* A knight move that gives double check, uncovers the rook and forks.
C17_Witness ==
    /\ probe.fn = "detect_all_motifs"
    /\ probe.motifs = <<"double_check", "discovered_attack", "fork">>

\* C18: detect_motif returns none exactly when detect_all_motifs returns
\* the empty sequence, and otherwise its first element, one of the eight
\* labels; so when the move mates the primary motif is the mate label, even
\* if other predicates hold.
C18_PrimaryIsFirst ==
    probe.fn = "detect_motif" =>
        /\ probe.primary = "None" <=> probe.motifs = <<>>
        /\ probe.motifs # <<>> =>
               /\ probe.primary = probe.motifs[1]
               /\ probe.primary \in Labels(FixedOrder)
        /\ IsCheckmate(Push(probe.board, probe.move)) =>
               probe.primary \in {"back_rank_mate", "checkmate"}

\* A mate that is also a fork.
C18_Witness ==
    /\ probe.fn = "detect_motif"
    /\ probe.primary = "checkmate"
    /\ "fork" \in Labels(probe.motifs)
    /\ DetectFork(probe.board, probe.move)

\* How often a label occurs in the result.
Occurrences(motifs, labels) ==
    Cardinality({i \in 1..Len(motifs) : motifs[i] \in labels})

\* C19: the result of detect_all_motifs holds exactly one of
\* back_rank_mate and checkmate when the move mates, and neither when it
\* does not, be it a check.
C19_OneMateLabel ==
    Probed =>
        Occurrences(probe.motifs, {"back_rank_mate", "checkmate"})
            = IF IsCheckmate(Push(probe.board, probe.move)) THEN 1 ELSE 0

\* A check that is no mate.
C19_Witness ==
    /\ probe.fn = "detect_all_motifs"
    /\ IsCheck(Push(probe.board, probe.move))
    /\ ~IsCheckmate(Push(probe.board, probe.move))
    /\ probe.motifs = <<>>

\* C20: a mating move is labelled back_rank_mate if and only if, after the
\* move, (a) the mated king is on its own back rank, (b) a checking piece
\* stands on that rank, and (c) a pawn of the mated side stands on the rank
\* in front of the king on the king's file or a file next to it; otherwise
\* it is labelled checkmate.
C20_BackRankMateConditions ==
    (Probed /\ IsCheckmate(Push(probe.board, probe.move))) =>
        LET after == Push(probe.board, probe.move)
            mated == after.turn
            king == King(after, mated)
            a == SquareRank(king) = (IF mated = WHITE THEN 0 ELSE 7)
            b == \E sq \in Checkers(after) : SquareRank(sq) = SquareRank(king)
            front == SquareRank(king) + (IF mated = WHITE THEN 1 ELSE 0 - 1)
            c == \E sq \in SQUARES :
                     /\ after.pieces[sq] = Piece(PAWN, mated)
                     /\ SquareRank(sq) = front
                     /\ Abs(SquareFile(sq) - SquareFile(king)) <= 1
        IN  /\ "back_rank_mate" \in Labels(probe.motifs) <=> (a /\ b /\ c)
            /\ "checkmate" \in Labels(probe.motifs) <=> ~(a /\ b /\ c)

\* A mate on the back rank by a rook on that rank, without a pawn in front
\* of the king.
C20_Witness ==
    /\ probe.fn = "detect_all_motifs"
    /\ probe.board = Catalog.NoPawnWall
    /\ IsCheckmate(Push(probe.board, probe.move))
    /\ probe.motifs = <<"checkmate">>

\* The enemy pieces worth a knight or more that stand, after the move of the
\* latest detector call, on a square attacked from one of the given squares.
ForkTargets(from_squares) ==
    LET after == Push(probe.board, probe.move)
        mover == after.pieces[probe.move.to_square]
    IN  { sq \in SQUARES :
            /\ after.pieces[sq].piece_type \in {KNIGHT, BISHOP, ROOK, QUEEN, KING}
            /\ after.pieces[sq].color # mover.color
            /\ \E s \in from_squares :
                   /\ after.pieces[s].piece_type # 0
                   /\ after.pieces[s].color = mover.color
                   /\ sq \in Attacks(after, s) }

\* C21: fork is among the labels if and only if, after the move, the piece on
\* the destination square attacks at least two enemy pieces that are knights,
\* bishops, rooks, queens or kings; what other pieces of the mover's side
\* attack is not counted.
C21_ForkCountsMovedPieceOnly ==
    Probed =>
        ("fork" \in Labels(probe.motifs)
            <=> Cardinality(ForkTargets({probe.move.to_square})) >= 2)

\* A move that opens a line: the mover's side attacks two valuable pieces
\* after it, the moved piece fewer than two, and fork is not emitted.
C21_Witness ==
    /\ probe.fn = "detect_all_motifs"
    /\ "discovered_attack" \in Labels(probe.motifs)
    /\ Cardinality(ForkTargets(SQUARES)) >= 2
    /\ Cardinality(ForkTargets({probe.move.to_square})) < 2
    /\ "fork" \notin Labels(probe.motifs)

\* The enemy pieces other than king and queen that the piece moved by the
\* latest detector call holds pinned to their king after the move: the moved
\* piece is a slider on a line with the king that its kind moves along, and
\* the pinned piece is the only piece between the two.
PinnedByMoved ==
    LET after == Push(probe.board, probe.move)
        to_sq == probe.move.to_square
        mover == after.pieces[to_sq]
        enemy == ~mover.color
        king == King(after, enemy)
        straight == SquareRank(to_sq) = SquareRank(king)
                        \/ SquareFile(to_sq) = SquareFile(king)
    IN  { sq \in SQUARES :
            /\ after.pieces[sq].piece_type \in {PAWN, KNIGHT, BISHOP, ROOK}
            /\ after.pieces[sq].color = enemy
            /\ king # NoSquare
            /\ Aligned(king, to_sq)
            /\ \/ mover.piece_type = QUEEN
               \/ mover.piece_type = ROOK /\ straight
               \/ mover.piece_type = BISHOP /\ ~straight
            /\ { x \in Between(to_sq, king) : after.pieces[x].piece_type # 0 }
                   = {sq} }

\* C22: pin is among the labels only when the piece on the destination
\* square is a bishop, rook or queen and it is itself the piece that holds
\* some enemy piece other than a king or queen pinned to the enemy king.
C22_AsStated ==
    Probed =>
        ("pin" \in Labels(probe.motifs) => PinnedByMoved # {})

\* A bishop steps onto the file along which a rook already pins a knight:
\* the bishop pins nothing, and pin is emitted.
C22_Witness ==
    /\ probe.fn = "detect_all_motifs"
    /\ probe.board = Catalog.StalePin
    /\ probe.move = Move(Square(3, 1), Square(4, 0), 0)
    /\ PinnedByMoved = {}
    /\ "pin" \in Labels(probe.motifs)

\* Where the moved piece is the pinner, pin is emitted.
C22_PinnerEmitsPin ==
    Probed => (PinnedByMoved # {} => "pin" \in Labels(probe.motifs))

\* The valuable enemy pieces on which the move of the latest detector call
\* opens an attack by vacating its origin square: a bishop, rook or queen of
\* the mover's side, not the moved piece, attacks the piece after the move
\* and not before, and the origin square lies between the two.
DiscoveredTargets ==
    LET after == Push(probe.board, probe.move)
        from_sq == probe.move.from_square
        to_sq == probe.move.to_square
        color == probe.board.pieces[from_sq].color
    IN  { t \in SQUARES :
            /\ after.pieces[t].piece_type \in {KNIGHT, BISHOP, ROOK, QUEEN, KING}
            /\ after.pieces[t].color # color
            /\ \E s \in SQUARES \ {to_sq} :
                   /\ after.pieces[s].piece_type \in {BISHOP, ROOK, QUEEN}
                   /\ after.pieces[s].color = color
                   /\ t \in Attacks(after, s)
                   /\ t \notin Attacks(probe.board, s)
                   /\ from_sq \in Between(s, t) }

\* C23: discovered_attack is among the labels if and only if a sliding piece
\* of the mover's side other than the moved piece attacks, after the move and
\* not before, an enemy piece of value 3 or more, and the attack was opened
\* by the moved piece leaving its origin square.
C23_AsStated ==
    Probed =>
        ("discovered_attack" \in Labels(probe.motifs) <=> DiscoveredTargets # {})

\* Castling king side: the rook arrives on f1 and attacks the knight on f5;
\* the king's origin square e1 never stood between them, and
\* discovered_attack is emitted.
C23_Witness ==
    /\ probe.fn = "detect_all_motifs"
    /\ probe.board = Catalog.CastleOntoFile
    /\ probe.move = Move(Square(4, 0), Square(6, 0), 0)
    /\ DiscoveredTargets = {}
    /\ "discovered_attack" \in Labels(probe.motifs)

\* Whenever the origin square stood between slider and target,
\* discovered_attack is emitted.
C23_OpenedLineEmits ==
    Probed =>
        (DiscoveredTargets # {} => "discovered_attack" \in Labels(probe.motifs))

\* The square k steps from sq in a direction, or NoSquare off the board.
StepFrom(sq, dir, k) ==
    LET rank == SquareRank(sq) + k * dir[1]
        file == SquareFile(sq) + k * dir[2]
    IN  IF rank \in 0..7 /\ file \in 0..7 THEN 8 * rank + file ELSE NoSquare

\* The directions a piece type slides along.
SlideDirections(piece_type) ==
    (IF piece_type \in {ROOK, QUEEN}
        THEN {<<1, 0>>, <<0 - 1, 0>>, <<0, 1>>, <<0, 0 - 1>>} ELSE {})
    \cup (IF piece_type \in {BISHOP, QUEEN}
        THEN {<<1, 1>>, <<1, 0 - 1>>, <<0 - 1, 1>>, <<0 - 1, 0 - 1>>} ELSE {})

\* After the move of the latest detector call, the pairs <<near, far>> of
\* enemy pieces that are the first two pieces met along a direction of the
\* moved piece, the squares before the farther one being otherwise empty.
FirstTwoEnemies ==
    LET after == Push(probe.board, probe.move)
        to_sq == probe.move.to_square
        mover == after.pieces[to_sq]
        enemy(sq) == /\ sq # NoSquare
                     /\ after.pieces[sq].piece_type # 0
                     /\ after.pieces[sq].color # mover.color
        empty(sq) == sq # NoSquare /\ after.pieces[sq].piece_type = 0
        steps(dir) ==
            { kk \in (1..6) \X (2..7) :
                /\ kk[1] < kk[2]
                /\ enemy(StepFrom(to_sq, dir, kk[1]))
                /\ enemy(StepFrom(to_sq, dir, kk[2]))
                /\ \A j \in (1..(kk[2] - 1)) \ {kk[1]} :
                       empty(StepFrom(to_sq, dir, j)) }
    IN  UNION { { <<StepFrom(to_sq, dir, kk[1]), StepFrom(to_sq, dir, kk[2])>> :
                    kk \in steps(dir) } :
                dir \in SlideDirections(mover.piece_type) }

\* C24: skewer is among the labels if and only if the moved piece is a
\* bishop, rook or queen and, along one of its directions, the first two
\* enemy pieces met, no piece of the mover's side standing before the second,
\* have the nearer worth strictly more than the farther.
C24_SkewerFirstTwoEnemies ==
    Probed =>
        LET after == Push(probe.board, probe.move)
            worth(sq) == PieceValues[after.pieces[sq].piece_type]
        IN  "skewer" \in Labels(probe.motifs)
                <=> \E pair \in FirstTwoEnemies : worth(pair[1]) > worth(pair[2])

\* The rook goes to a1: up the file stand the black queen, a white pawn and
\* the black rook; the pawn ends the scan and no skewer is emitted.
C24_Witness ==
    /\ probe.fn = "detect_all_motifs"
    /\ probe.board = Catalog.BlockedSkewer
    /\ probe.move = Move(Square(1, 0), Square(0, 0), 0)
    /\ FirstTwoEnemies = {}
    /\ "skewer" \notin Labels(probe.motifs)

\* C25: promotion is among the labels if and only if the move names a
\* promotion piece, whatever else holds; it is then the last label, and the
\* mate label of a promoting move that mates stands before it.
C25_PromotionLast ==
    Probed =>
        LET motifs == probe.motifs
            mates == IsCheckmate(Push(probe.board, probe.move))
        IN  /\ "promotion" \in Labels(motifs) <=> probe.move.promotion # 0
            /\ "promotion" \in Labels(motifs) =>
                   /\ motifs[Len(motifs)] = "promotion"
                   /\ Occurrences(motifs, {"promotion"}) = 1
                   /\ mates => /\ Len(motifs) >= 2
                               /\ motifs[1] \in {"checkmate", "back_rank_mate"}

\* A pawn promotes to a rook and mates on the back rank.
C25_Witness ==
    /\ probe.fn = "detect_all_motifs"
    /\ probe.move.promotion = ROOK
    /\ IsCheckmate(Push(probe.board, probe.move))
    /\ probe.motifs = <<"back_rank_mate", "promotion">>

C27_UndoRule ==
    [][ server'.call.op = "undo_move" =>
            LET call == server'.call
                games == server.games
            IN  IF call.error
                THEN /\ server'.games = games
                     /\ call.id \in 1..Len(games)
                            => games[call.id].move_stack = <<>>
                ELSE /\ call.id \in 1..Len(games)
                     /\ games[call.id].move_stack # <<>>
                     /\ LET game == games[call.id]
                            after == server'.games[call.id]
                            n == Len(game.move_stack)
                            left == Len(after.move_stack)
                            player_turn == IF game.player_color = "white"
                                           THEN WHITE ELSE BLACK
                            more == /\ n > 1
                                    /\ game.stack[n].board.turn # player_turn
                        IN  /\ left = n - (IF more THEN 2 ELSE 1)
                            /\ call.popped = n - left
                            /\ after.move_stack = SubSeq(game.move_stack, 1, left)
                            /\ after.board = game.stack[left + 1].board
                            /\ after.move_stack = <<>>
                                   \/ after.board.turn = player_turn
                            /\ after.move_evals =
                                   SelectSeq(game.move_evals,
                                             LAMBDA ev : ev.ply < left)
                            /\ after.player_color = game.player_color
                            /\ Len(server'.games) = Len(games)
                            /\ \A i \in 1..Len(games) :
                                   i # call.id => server'.games[i] = games[i]
      ]_vars

\* C27 (as stated): after a successful undo_move the move list is empty or
\* it is the player's turn, no stored evaluation has a ply at or above the
\* new ply count, one or two plies were removed, and an undo_move that
\* follows a make_move and then an engine_move has removed both plies.
C27_AsStated ==
    (server.call.op = "undo_move" /\ ~server.call.error) =>
        LET game == server.games[server.call.id]
            player_turn == IF game.player_color = "white" THEN WHITE ELSE BLACK
        IN  /\ server.call.popped \in {1, 2}
            /\ game.move_stack = <<>> \/ game.board.turn = player_turn
            /\ \A i \in 1..Len(game.move_evals) :
                   game.move_evals[i].ply < Len(game.move_stack)
            /\ server.call.pair => server.call.popped = 2

\* make_move, engine_move and undo_move were called one after the other on
\* the game of a player with the black pieces; the undo removed one ply, the
\* ply of make_move is still in the move list and it is black's turn.
C27_Witness ==
    /\ server.call.op = "undo_move"
    /\ ~server.call.error
    /\ server.call.pair
    /\ server.call.popped = 1
    /\ Len(server.games[server.call.id].move_stack) = 1
    /\ server.games[server.call.id].player_color = "black"
    /\ server.games[server.call.id].board.turn = BLACK

\* Where the make_move was made on the player's turn, the undo_move that
\* follows it and an engine_move has removed both plies.
C27_OnTurnPairUndone ==
    [][ ( /\ server'.call.op = "undo_move"
          /\ ~server'.call.error
          /\ server'.call.pair
          /\ LET game == server.games[server'.call.id]
                 n == Len(game.move_stack)
             IN  game.stack[n - 1].board.turn =
                     (IF game.player_color = "white" THEN WHITE ELSE BLACK) )
            => server'.call.popped = 2
      ]_vars

\* The legal moves a game keeps next to its board are the legal moves of
\* that board.
LegalMovesKept ==
    \A i \in 1..Len(server.games) :
        server.games[i].legal_moves = LegalMoves(server.games[i].board)

\* C28: from one state of the server to the next, a game tool called with
\* an unknown game id returns an error and changes no game; a make_move or
\* an engine_move that returns an error changes no game, and it is what a
\* game whose board is game-over gets, and what make_move gets for a text
\* that is no legal move; one that succeeds appends exactly one ply, a legal
\* move of the board before, to the move list of its game, and leaves the
\* other games alone.
C28_NoPlyOnFinishedGame ==
    [][ LET call == server'.call
            games == server.games
            known == call.id \in 1..Len(games)
        IN  /\ ( /\ call.op \in {"make_move", "engine_move", "evaluate_move",
                                 "undo_move"}
                 /\ ~known )
                    => call.error /\ server'.games = games
            /\ call.op \in {"make_move", "engine_move"} =>
                   IF call.error THEN server'.games = games
                   ELSE /\ known
                        /\ ~IsGameOver(games[call.id].board,
                                       games[call.id].legal_moves)
                        /\ \E m \in games[call.id].legal_moves :
                               /\ server'.games[call.id].move_stack =
                                      Append(games[call.id].move_stack, m)
                               /\ server'.games[call.id].board =
                                      Push(games[call.id].board, m)
                        /\ Len(server'.games) = Len(games)
                        /\ \A i \in 1..Len(games) :
                               i # call.id => server'.games[i] = games[i]
      ]_vars

\* make_move was called on a game that had ended with the bare kings on
\* the board, where legal moves remain, and returned an error; the move
\* list holds the two plies it held.
C28_Witness ==
    /\ server.call.op = "make_move"
    /\ server.call.error
    /\ server.call.id = 1
    /\ Len(server.games[1].move_stack) = 2
    /\ LegalMoves(server.games[1].board) # {}
    /\ IsGameOver(server.games[1].board, LegalMoves(server.games[1].board))

\* The length of the longest suffix of a history whose entries all pass.
PassingSuffix(h) ==
    LET fails == {i \in 1..Len(h) : h[i] < 3}
    IN  IF fails = {} THEN Len(h)
        ELSE Len(h) - (CHOOSE i \in fails : \A j \in fails : j <= i)

\* C29: every card has as many repetitions as its history ends with passing
\* qualities; its interval is 4 hours at 0 repetitions and element
\* repetitions - 1 of 4, 24, 72, 168, 336, 720 from 1 to 6 repetitions; and a
\* passing review never returns an interval shorter than the card had.
C29_RepetitionsAndLadder ==
    /\ \A i \in 1..Len(cards) :
           LET c == cards[i]
           IN  /\ c.repetitions = PassingSuffix(c.quality_history)
               /\ c.repetitions = 0 => c.interval_hours = 4
               /\ c.repetitions \in 1..6 =>
                      c.interval_hours
                          = <<4, 24, 72, 168, 336, 720>>[c.repetitions]
    /\ (Reviewed /\ last.quality.val >= 3) =>
           ReturnedCard.interval_hours >= OldCard.interval_hours

\* The card has passed, failed, and passed twice since: two repetitions and
\* a day's interval, after the four hours of the pass before.
C29_Witness ==
    /\ Reviewed
    /\ Len(cards) = 1
    /\ Len(cards[1].quality_history) = 4
    /\ cards[1].quality_history[1] >= 3
    /\ cards[1].quality_history[2] < 3
    /\ cards[1].repetitions = 2
    /\ cards[1].interval_hours = 24
    /\ OldCard.interval_hours = 4

\* C30: after every successful add_card or review_card the store file holds
\* the serialisation of the cards in memory, which a new instance on the
\* same path loads as exactly those cards in that order; get_due_cards,
\* get_stats and a failed review_card leave every file as it was.
C30_StoreMirrorsMemory ==
    /\ (last.op \in {"add_card", "review_card"} /\ last.outcome = "ok") =>
           /\ files[CardsPath].exists
           /\ files[CardsPath].text = JsonDumps(cards)
           /\ ~LoadCards(files).raised
           /\ LoadCards(files).cards = cards
           /\ LoadCards(files).files = files
    /\ (\/ last.op \in {"get_due_cards", "get_stats"}
        \/ last.op = "review_card" /\ last.outcome # "ok") =>
           files = last.filesBefore

\* The second of two cards has been reviewed with quality 3, which gives the
\* ease factor 2.36, and the store reads back as the two cards.
C30_Witness ==
    /\ Reviewed
    /\ Len(cards) = 2
    /\ last.id = cards[2].id
    /\ cards[2].ease_factor = 23600
    /\ cards[1].ease_factor = 25000
    /\ LoadCards(files).cards = cards

====
